---- MODULE Spec2Model ----
(***************************************************************************)
(* A model of the luapp tree-walking interpreter: the static analyzer      *)
(* (syntactic_analyzer.cpp), the evaluator's block / frame / function      *)
(* stacks and its control-flow signals (interpreter.cpp), and the value    *)
(* cells they bind (types.cpp).                                            *)
(*                                                                         *)
(* The C++ call stack of the recursive visitor is the variable `stack`:    *)
(* one record per activation of a visitor method that is waiting for a     *)
(* nested visit.  An exception in flight is the variable `exc`.            *)
(***************************************************************************)
EXTENDS Integers, Sequences, FiniteSets, TLC

(***************************************************************************)
(* Syntax trees (the parser is an external collaborator).  A program is a  *)
(* sequence of blocks; a block is referred to by its index, which stands   *)
(* for its LuaParser::BlockContext*.  Block 1 is the chunk's block.        *)
(***************************************************************************)
ENil == [k |-> "nil"]
ETrue == [k |-> "true"]
EFalse == [k |-> "false"]
EInt(n) == [k |-> "int", n |-> n]
EDbl(n) == [k |-> "double", n |-> n]
EName(x) == [k |-> "name", name |-> x]
EVararg == [k |-> "vararg"]
EFunc(params, body) == [k |-> "functiondef", params |-> params, body |-> body]
ECall(f, args) == [k |-> "call", fn |-> f, args |-> args]
EBin(op, l, r) == [k |-> "binop", op |-> op, l |-> l, r |-> r]
EStr(s) == [k |-> "string", s |-> s]
\* #e
ELen(e) == [k |-> "len", e |-> e]
\* a double that is not an integer: n + 0.5
EHalf(n) == [k |-> "half", n |-> n]
\* a field of a table constructor: exp, NAME = exp, [exp] = exp
FPos(e) == [key |-> "none", val |-> e]
FName(x, e) == [key |-> "name", name |-> x, val |-> e]
FKey(k, e) == [key |-> "exp", kexp |-> k, val |-> e]
ETable(fields) == [k |-> "table", fields |-> fields]
\* NAME[exp] and NAME.field
EIndex(x, e) == [k |-> "index", name |-> x, suffix |-> "subscript", key |-> e]
EDot(x, y) == [k |-> "index", name |-> x, suffix |-> "dot", key |-> EStr(y)]

SSemi == [k |-> "semi"]
SBreak == [k |-> "break"]
SGoto(l) == [k |-> "goto", name |-> l]
SLabel(l) == [k |-> "label", name |-> l]
SDo(b) == [k |-> "do", body |-> b]
SWhile(e, b) == [k |-> "while", cond |-> e, body |-> b]
SIf(conds, bs) == [k |-> "if", conds |-> conds, blocks |-> bs]
SForNum(x, es, b) == [k |-> "fornum", name |-> x, exps |-> es, body |-> b]
SForIn(xs, es, b) == [k |-> "forin", names |-> xs, exps |-> es, body |-> b]
SFunction(x, params, b) ==
    [k |-> "function", name |-> x, field |-> "", params |-> params, body |-> b]
\* function x.m(params) body end
SMethod(x, m, params, b) ==
    [k |-> "function", name |-> x, field |-> m, params |-> params, body |-> b]
SLocalFunction(x, params, b) == [k |-> "localfunction", name |-> x, params |-> params, body |-> b]
SLocal(xs, es) == [k |-> "local", names |-> xs, hasexps |-> TRUE, exps |-> es]
SLocalNoInit(xs) == [k |-> "local", names |-> xs, hasexps |-> FALSE, exps |-> <<>>]
SAssign(xs, es) ==
    [k |-> "assign", vars |-> [i \in 1..Len(xs) |-> EName(xs[i])], exps |-> es]
\* an assignment whose targets may be table fields
SAssignTo(vs, es) == [k |-> "assign", vars |-> vs, exps |-> es]
SCall(f, args) == [k |-> "call", call |-> ECall(f, args)]

NoRet == [has |-> FALSE, exps |-> <<>>]
Ret(es) == [has |-> TRUE, exps |-> es]
Block(stats, ret) == [stats |-> stats, ret |-> ret]

(***************************************************************************)
(* The listener events of ParseTreeWalker::walk, in document order.        *)
(***************************************************************************)
Ev(e, b, s) == [e |-> e, b |-> b, s |-> s]

RECURSIVE BlockEvents(_, _), StatsEvents(_, _, _), StatEvents(_, _),
          ExpEvents(_, _), ExplistEvents(_, _, _), IfEvents(_, _, _)

FuncbodyEvents(bs, fb) ==
    <<Ev("enterFuncbody", fb.body, fb)>> \o BlockEvents(bs, fb.body)
        \o <<Ev("exitFuncbody", fb.body, fb)>>

ExpEvents(bs, e) ==
    CASE e.k = "functiondef" -> FuncbodyEvents(bs, e)
      [] e.k = "call" -> ExplistEvents(bs, e.args, 1)
      [] e.k = "binop" -> ExpEvents(bs, e.l) \o ExpEvents(bs, e.r)
      [] e.k = "table" ->
            ExplistEvents(bs, [i \in 1..Len(e.fields) |-> e.fields[i].val], 1)
      [] OTHER -> <<>>

ExplistEvents(bs, es, i) ==
    IF i > Len(es) THEN <<>>
    ELSE ExpEvents(bs, es[i]) \o ExplistEvents(bs, es, i + 1)

IfEvents(bs, s, i) ==
    IF i > Len(s.blocks) THEN <<>>
    ELSE (IF i <= Len(s.conds) THEN ExpEvents(bs, s.conds[i]) ELSE <<>>)
            \o BlockEvents(bs, s.blocks[i]) \o IfEvents(bs, s, i + 1)

StatEvents(bs, s) ==
    <<Ev("enterStat", 0, s)>> \o
    CASE s.k = "label" -> <<Ev("enterLabel", 0, s)>>
      [] s.k = "do" -> BlockEvents(bs, s.body)
      [] s.k = "while" -> ExpEvents(bs, s.cond) \o BlockEvents(bs, s.body)
      [] s.k = "if" -> IfEvents(bs, s, 1)
      [] s.k \in {"fornum", "forin"} ->
            ExplistEvents(bs, s.exps, 1) \o BlockEvents(bs, s.body)
      [] s.k \in {"function", "localfunction"} -> FuncbodyEvents(bs, s)
      [] s.k \in {"local", "assign"} -> ExplistEvents(bs, s.exps, 1)
      [] s.k = "call" -> ExpEvents(bs, s.call)
      [] OTHER -> <<>>

StatsEvents(bs, stats, i) ==
    IF i > Len(stats) THEN <<>>
    ELSE StatEvents(bs, stats[i]) \o StatsEvents(bs, stats, i + 1)

BlockEvents(bs, b) ==
    <<Ev("enterBlock", b, SSemi)>> \o StatsEvents(bs, bs[b].stats, 1)
        \o ExplistEvents(bs, bs[b].ret.exps, 1)
        \o <<Ev("exitBlock", b, SSemi)>>

(***************************************************************************)
(* SyntacticAnalyzer.  The multimaps are kept as sequences of pairs in     *)
(* insertion order: equal_range(key) is the subsequence with that key,     *)
(* which std::multimap keeps in insertion order.                           *)
(***************************************************************************)
Last(s) == s[Len(s)]
Front(s) == SubSeq(s, 1, Len(s) - 1)

Elem(k, name, b) == [k |-> k, name |-> name, b |-> b]

NewScope(root) == [_root_context |-> root, keys |-> {}, elems |-> <<>>]

\* _current_scope->_scope_elements[ctx]: operator[] creates the entry
ScopeTouch(A, ctx) ==
    [A EXCEPT !._scopes[A._current_scope].keys = @ \cup {ctx}]

\* _current_scope->_scope_elements[ctx].push_back(el)
ScopePush(A, ctx, el) ==
    [A EXCEPT !._scopes[A._current_scope].keys = @ \cup {ctx},
              !._scopes[A._current_scope].elems = Append(@, [b |-> ctx, el |-> el])]

\* the vector _scope_elements[ctx] of a scope
ScopeVec(scope, ctx) ==
    LET sel == SelectSeq(scope.elems, LAMBDA p : p.b = ctx)
    IN  [i \in 1..Len(sel) |-> sel[i].el]

\* _locals_per_block[blk]: the entries of block blk, in multimap order
LocalsOf(A, blk) == SelectSeq(A._locals_per_block, LAMBDA p : p.blk = blk)

LocalsInsert(A, blk, name, decl) ==
    [A EXCEPT !._locals_per_block = Append(@, [blk |-> blk, name |-> name, decl |-> decl])]

RECURSIVE LocalsInsertAll(_, _, _, _, _)
LocalsInsertAll(A, blk, names, decl, i) ==
    IF i > Len(names) THEN A
    ELSE LocalsInsertAll(LocalsInsert(A, blk, names[i], decl), blk, names, decl, i + 1)

AnalyzerInit ==
    [_current_context |-> 0, _blocks |-> <<>>, _scopes |-> <<>>,
     _stack_scopes |-> <<>>, _current_scope |-> 0, _loop_blocks |-> {},
     _label_to_context |-> <<>>, _locals_per_block |-> <<>>,
     _blocks_relations |-> <<>>, _functions_parents |-> <<>>, error |-> "none"]

enterChunk(A, root) ==
    LET A1 == [A EXCEPT !._scopes = Append(@, NewScope(root)),
                        !._stack_scopes = Append(@, Len(A._scopes) + 1),
                        !._current_scope = Len(A._scopes) + 1]
    IN  ScopeTouch(A1, root)

enterBlock(A, ctx) ==
    LET A1 == [A EXCEPT !._blocks = Append(@, ctx)]
        A2 == IF A._current_context # 0
              THEN ScopePush(A1, A._current_context, Elem("block", "", ctx))
              ELSE A1
        A3 == [ScopeTouch(A2, ctx) EXCEPT !._current_context = ctx]
        parent == Last(A._blocks_relations)
        src == LocalsOf(A, parent)
        moved == [i \in 1..Len(src) |->
                    [blk |-> ctx, name |-> src[i].name, decl |-> src[i].decl]]
        A4 == IF A._blocks_relations = <<>> THEN A3
              ELSE [A3 EXCEPT !._locals_per_block = @ \o moved]
    IN  [A4 EXCEPT !._blocks_relations = Append(@, ctx)]

exitBlock(A, ctx) ==
    IF Last(A._blocks) # ctx THEN [A EXCEPT !.error = "Unbalanced blocks"]
    ELSE [A EXCEPT !._blocks = Front(@),
                   !._current_context =
                        IF Len(A._blocks) = 1 THEN 0 ELSE A._blocks[Len(A._blocks) - 1],
                   !._loop_blocks = @ \ {ctx},
                   !._blocks_relations = Front(@)]

enterStat(A, s) ==
    LET cur == Last(A._blocks_relations) IN
    CASE s.k = "goto" ->
            ScopePush(A, A._current_context, Elem("goto", s.name, 0))
      [] s.k = "localfunction" ->
            LocalsInsert(ScopePush(A, A._current_context, Elem("local", s.name, 0)),
                         cur, s.name, cur)
      [] s.k = "local" ->
            LET RECURSIVE Each(_, _)
                Each(B, i) ==
                    IF i > Len(s.names) THEN B
                    ELSE Each(LocalsInsert(
                                ScopePush(B, A._current_context, Elem("local", s.names[i], 0)),
                                cur, s.names[i], cur), i + 1)
            IN  Each(A, 1)
      [] s.k = "function" ->
            ScopePush(A, A._current_context, Elem("local", s.name, 0))
      [] s.k = "label" ->
            [A EXCEPT !._label_to_context =
                        Append(@, [label |-> s.name, ctx |-> A._current_context])]
      [] s.k = "forin" ->
            LocalsInsertAll([A EXCEPT !._loop_blocks = @ \cup {s.body}],
                            s.body, s.names, s.body, 1)
      [] s.k = "fornum" ->
            LocalsInsert([A EXCEPT !._loop_blocks = @ \cup {s.body}],
                         s.body, s.name, s.body)
      [] s.k = "while" -> [A EXCEPT !._loop_blocks = @ \cup {s.body}]
      [] s.k = "break" ->
            IF A._loop_blocks = {} THEN [A EXCEPT !.error = "LonelyBreak"] ELSE A
      [] OTHER -> A

\* the parameter names that are NAMEs of the parlist's namelist ("..." is not)
ParamNames(params) == SelectSeq(params, LAMBDA x : x # "...")

enterFuncbody(A, fb) ==
    LET A1 == LocalsInsertAll(A, fb.body, ParamNames(fb.params), fb.body, 1)
        rel == A._blocks_relations
        A2 == [A1 EXCEPT !._functions_parents =
                    @ \o [i \in 1..Len(rel) |-> [fn |-> fb.body, blk |-> rel[i]]]]
    IN  [A2 EXCEPT !._scopes = Append(@, NewScope(fb.body)),
                   !._current_scope = Len(A._scopes) + 1,
                   !._stack_scopes = Append(@, Len(A._scopes) + 1),
                   !._current_context = 0]

exitFuncbody(A) ==
    [A EXCEPT !._stack_scopes = Front(@),
              !._current_scope =
                    IF Len(A._stack_scopes) = 1 THEN 0
                    ELSE A._stack_scopes[Len(A._stack_scopes) - 1]]

enterLabel(A, s) ==
    ScopePush(A, A._current_context, Elem("label", s.name, 0))

\* one listener callback
Listen(A, ev) ==
    CASE ev.e = "enterBlock" -> enterBlock(A, ev.b)
      [] ev.e = "exitBlock" -> exitBlock(A, ev.b)
      [] ev.e = "enterStat" -> enterStat(A, ev.s)
      [] ev.e = "enterFuncbody" -> enterFuncbody(A, ev.s)
      [] ev.e = "exitFuncbody" -> exitFuncbody(A)
      [] ev.e = "enterLabel" -> enterLabel(A, ev.s)

\* ParseTreeWalker::walk: the callbacks in order, until one throws
RECURSIVE Walk(_, _, _)
Walk(A, evs, i) ==
    IF i > Len(evs) \/ A.error # "none" THEN A
    ELSE Walk(Listen(A, evs[i]), evs, i + 1)

RECURSIVE validate_labels(_, _), ValidateLabelsFrom(_, _, _, _)
\* the elements of ctx from position i on, `labels` being those already met
ValidateLabelsFrom(scope, vec, i, labels) ==
    IF i > Len(vec) THEN "none"
    ELSE IF vec[i].k = "label"
         THEN IF vec[i].name \in labels THEN "LabelAlreadyDefined"
              ELSE ValidateLabelsFrom(scope, vec, i + 1, labels \cup {vec[i].name})
         ELSE IF vec[i].k = "block"
              THEN LET r == validate_labels(scope, vec[i].b)
                   IN  IF r # "none" THEN r
                       ELSE ValidateLabelsFrom(scope, vec, i + 1, labels)
              ELSE ValidateLabelsFrom(scope, vec, i + 1, labels)

validate_labels(scope, ctx) == ValidateLabelsFrom(scope, ScopeVec(scope, ctx), 1, {})

\* one pass of validate_goto's inner loop: the elements of a block from
\* position i to the end; "found", "crossed" or "next" (label not here)
RECURSIVE ScanForLabel(_, _, _, _)
ScanForLabel(vec, i, search, crossed) ==
    IF i > Len(vec) THEN "next"
    ELSE IF vec[i].k = "local" THEN ScanForLabel(vec, i + 1, search, TRUE)
         ELSE IF vec[i].k = "label" /\ vec[i].name = search
              THEN IF crossed THEN "crossed" ELSE "found"
              ELSE ScanForLabel(vec, i + 1, search, crossed)

\* previous: the (iterator, end) pairs, innermost last; j runs from the last
RECURSIVE validate_goto(_, _, _, _)
validate_goto(scope, previous, j, search) ==
    IF j = 0 THEN "InvisibleLabel"
    ELSE LET r == ScanForLabel(ScopeVec(scope, previous[j].b), previous[j].pos,
                               search, FALSE)
         IN  CASE r = "found" -> "none"
               [] r = "crossed" -> "CrossedLocal"
               [] OTHER -> validate_goto(scope, previous, j - 1, search)

RECURSIVE explore_context(_, _, _, _), ExploreFrom(_, _, _, _, _)
ExploreFrom(scope, ctx, i, labels, iters) ==
    LET vec == ScopeVec(scope, ctx)
        here == Append(iters, [b |-> ctx, pos |-> i])
    IN  IF i > Len(vec) THEN "none"
        ELSE CASE vec[i].k = "goto" ->
                    IF vec[i].name \in labels
                    THEN ExploreFrom(scope, ctx, i + 1, labels, iters)
                    ELSE LET r == validate_goto(scope, here, Len(here), vec[i].name)
                         IN  IF r # "none" THEN r
                             ELSE ExploreFrom(scope, ctx, i + 1, labels, iters)
               [] vec[i].k = "label" ->
                    ExploreFrom(scope, ctx, i + 1, labels \cup {vec[i].name}, iters)
               [] vec[i].k = "block" ->
                    LET r == explore_context(scope, vec[i].b, labels, here)
                    IN  IF r # "none" THEN r
                        ELSE ExploreFrom(scope, ctx, i + 1, labels, iters)
               [] OTHER -> ExploreFrom(scope, ctx, i + 1, labels, iters)

explore_context(scope, ctx, previous_labels, previous) ==
    IF ctx \notin scope.keys THEN "Unable to find context"
    ELSE ExploreFrom(scope, ctx, 1, previous_labels, previous)

RECURSIVE ValidateScopes(_, _)
ValidateScopes(A, n) ==
    IF n > Len(A._scopes) THEN "none"
    ELSE LET scope == A._scopes[n]
             r1 == validate_labels(scope, scope._root_context)
             r2 == explore_context(scope, scope._root_context, {}, <<>>)
         IN  IF r1 # "none" THEN r1
             ELSE IF r2 # "none" THEN r2
             ELSE ValidateScopes(A, n + 1)

validate_gotos(A) == ValidateScopes(A, 1)

\* Interpreter::Interpreter: walk the tree with the listener, then validate
\* the gotos; error is the exception that aborts construction, or "none"
Analyze(bs) ==
    LET A == Walk(enterChunk(AnalyzerInit, 1), BlockEvents(bs, 1), 1)
    IN  IF A.error # "none" THEN A ELSE [A EXCEPT !.error = validate_gotos(A)]

is_associated_with_label(A, ctx, label) ==
    \E i \in 1..Len(A._label_to_context) :
        A._label_to_context[i].label = label /\ A._label_to_context[i].ctx = ctx

\* the blocks of equal_range(name) in _locals_per_block[ctx], in order
get_context_for_local(A, ctx, name) ==
    LET sel == SelectSeq(A._locals_per_block,
                         LAMBDA p : p.blk = ctx /\ p.name = name)
    IN  [i \in 1..Len(sel) |-> sel[i].decl]

\* the blocks of equal_range(fnctx) in _functions_parents, in order
get_parents_of_function(A, fnctx) ==
    LET sel == SelectSeq(A._functions_parents, LAMBDA p : p.fn = fnctx)
    IN  [i \in 1..Len(sel) |-> sel[i].blk]

(***************************************************************************)
(* The programs the interpreter is run on.  Names never begin with a       *)
(* keyword: visitStat dispatches on the text of the statement.             *)
(***************************************************************************)
StatPrint(e) == SCall("print", <<e>>)
X == EName("x")
Lt(l, r) == EBin("<", l, r)
Add(l, r) == EBin("+", l, r)

\* local a = 1  while true do break end  print(a)
PWhileBreak ==
    <<Block(<<SLocal(<<"a">>, <<EInt(1)>>), SWhile(ETrue, 2), StatPrint(EName("a"))>>, NoRet),
      Block(<<SBreak>>, NoRet)>>

\* local a = 1  while a < 2 do a = a + 1 end  print(a)
PWhileEnd ==
    <<Block(<<SLocal(<<"a">>, <<EInt(1)>>), SWhile(Lt(EName("a"), EInt(2)), 2),
              StatPrint(EName("a"))>>, NoRet),
      Block(<<SAssign(<<"a">>, <<Add(EName("a"), EInt(1))>>)>>, NoRet)>>

\* local a = 1  do goto done end  print(0)  ::done::  print(a)
PGotoNested ==
    <<Block(<<SLocal(<<"a">>, <<EInt(1)>>), SDo(2), StatPrint(EInt(0)),
              SLabel("done"), StatPrint(EName("a"))>>, NoRet),
      Block(<<SGoto("done")>>, NoRet)>>

\* print(9)  goto skip  print(0)  ::skip::  print(1)
PGotoForward ==
    <<Block(<<StatPrint(EInt(9)), SGoto("skip"), StatPrint(EInt(0)), SLabel("skip"),
              StatPrint(EInt(1))>>, NoRet)>>

\* ::top::  goto top
PGotoSelf == <<Block(<<SLabel("top"), SGoto("top")>>, NoRet)>>

\* n = 0  ::top::  n = n + 1  if n < 2 then goto top end  print(n)
PGotoBack ==
    <<Block(<<SAssign(<<"n">>, <<EInt(0)>>), SLabel("top"),
              SAssign(<<"n">>, <<Add(EName("n"), EInt(1))>>),
              SIf(<<Lt(EName("n"), EInt(2))>>, <<2>>), StatPrint(EName("n"))>>, NoRet),
      Block(<<SGoto("top")>>, NoRet)>>

\* function f(n) if n < 1 then return end  f(n - 1) end  f(1)
PRecursion ==
    <<Block(<<SFunction("f", <<"n">>, 2), SCall("f", <<EInt(1)>>)>>, NoRet),
      Block(<<SIf(<<Lt(EName("n"), EInt(1))>>, <<3>>),
              SCall("f", <<EBin("-", EName("n"), EInt(1))>>)>>, NoRet),
      Block(<<>>, Ret(<<>>))>>

\* function g(a) do return a end end  local r = g(4)  print(r)
PReturnDeep ==
    <<Block(<<SFunction("g", <<"a">>, 2),
              SLocal(<<"r">>, <<ECall("g", <<EInt(4)>>)>>), StatPrint(EName("r"))>>, NoRet),
      Block(<<SDo(3)>>, NoRet),
      Block(<<>>, Ret(<<EName("a")>>))>>

\* while true do function f() break end  f() end
PBreakInFunction ==
    <<Block(<<SWhile(ETrue, 2)>>, NoRet),
      Block(<<SFunction("f", <<>>, 3), SCall("f", <<>>)>>, NoRet),
      Block(<<SBreak>>, NoRet)>>

\* a rejected program: break outside any loop
PLonelyBreak == <<Block(<<SBreak>>, NoRet)>>

\* function f(x, ...) print(x) end  f(1, 2, 3)  f(1)  f(1, 2)
PVariadic ==
    <<Block(<<SFunction("f", <<"x", "...">>, 2),
              SCall("f", <<EInt(1), EInt(2), EInt(3)>>),
              SCall("f", <<EInt(1)>>), SCall("f", <<EInt(1), EInt(2)>>)>>, NoRet),
      Block(<<StatPrint(X)>>, NoRet)>>

\* function h(a, b) print(b) end  h(1)  h(1, 2, 3)  function z() end  z(5)
PFormals ==
    <<Block(<<SFunction("h", <<"a", "b">>, 2), SCall("h", <<EInt(1)>>),
              SCall("h", <<EInt(1), EInt(2), EInt(3)>>),
              SFunction("z", <<>>, 3), SCall("z", <<EInt(5)>>)>>, NoRet),
      Block(<<StatPrint(EName("b"))>>, NoRet),
      Block(<<>>, NoRet)>>

\* function g() return 7, 8 end  function f(a, b, c) print(c) end
\* f(1, g())  f(g(), 1)
PArgsCall ==
    <<Block(<<SFunction("g", <<>>, 2), SFunction("f", <<"a", "b", "c">>, 3),
              SCall("f", <<EInt(1), ECall("g", <<>>)>>),
              SCall("f", <<ECall("g", <<>>), EInt(1)>>)>>, NoRet),
      Block(<<>>, Ret(<<EInt(7), EInt(8)>>)),
      Block(<<StatPrint(EName("c"))>>, NoRet)>>

\* function f(a, b, c) print(b) end  function v(...) f(0, ...) end  v(1, 2)
PArgsVararg ==
    <<Block(<<SFunction("f", <<"a", "b", "c">>, 2), SFunction("v", <<"...">>, 3),
              SCall("v", <<EInt(1), EInt(2)>>)>>, NoRet),
      Block(<<StatPrint(EName("b"))>>, NoRet),
      Block(<<SCall("f", <<EInt(0), EVararg>>)>>, NoRet)>>

\* local x = 1  do local x = 2  print(x) end  print(x)
\* if true then local x = 3  print(x) end  print(x)
PShadowDo ==
    <<Block(<<SLocal(<<"x">>, <<EInt(1)>>), SDo(2), StatPrint(X),
              SIf(<<ETrue>>, <<3>>), StatPrint(X)>>, NoRet),
      Block(<<SLocal(<<"x">>, <<EInt(2)>>), StatPrint(X)>>, NoRet),
      Block(<<SLocal(<<"x">>, <<EInt(3)>>), StatPrint(X)>>, NoRet)>>

\* local x = 10  for x = 1, 1 do print(x) end  print(x)
PShadowFor ==
    <<Block(<<SLocal(<<"x">>, <<EInt(10)>>), SForNum("x", <<EInt(1), EInt(1)>>, 2),
              StatPrint(X)>>, NoRet),
      Block(<<StatPrint(X)>>, NoRet)>>

\* function it(s, c) if c < 1 then return c + 1 end end
\* function gen() return it, 0, 0 end
\* local x = 10  for x in gen() do print(x) end  print(x)
PShadowForIn ==
    <<Block(<<SFunction("it", <<"s", "c">>, 2), SFunction("gen", <<>>, 4),
              SLocal(<<"x">>, <<EInt(10)>>),
              SForIn(<<"x">>, <<ECall("gen", <<>>)>>, 5), StatPrint(X)>>, NoRet),
      Block(<<SIf(<<Lt(EName("c"), EInt(1))>>, <<3>>)>>, NoRet),
      Block(<<>>, Ret(<<Add(EName("c"), EInt(1))>>)),
      Block(<<>>, Ret(<<EName("it"), EInt(0), EInt(0)>>)),
      Block(<<StatPrint(X)>>, NoRet)>>

\* local f = function(a) return a end  print(f(3))
PFunctiondef ==
    <<Block(<<SLocal(<<"f">>, <<EFunc(<<"a">>, 2)>>),
              StatPrint(ECall("f", <<EInt(3)>>))>>, NoRet),
      Block(<<>>, Ret(<<EName("a")>>))>>

\* for x = 1, 2 do local t = x  x = 7  print(t) end
PForAssign ==
    <<Block(<<SForNum("x", <<EInt(1), EInt(2)>>, 2)>>, NoRet),
      Block(<<SLocal(<<"t">>, <<X>>), SAssign(<<"x">>, <<EInt(7)>>),
              StatPrint(EName("t"))>>, NoRet)>>

\* for x = 1, 2 do while true do break end  print(x) end
PForNestedBreak ==
    <<Block(<<SForNum("x", <<EInt(1), EInt(2)>>, 2)>>, NoRet),
      Block(<<SWhile(ETrue, 3), StatPrint(X)>>, NoRet),
      Block(<<SBreak>>, NoRet)>>

\* for x = 1, 2 do do goto continue end  print(0)  ::continue:: end
PForContinue ==
    <<Block(<<SForNum("x", <<EInt(1), EInt(2)>>, 2)>>, NoRet),
      Block(<<SDo(3), StatPrint(EInt(0)), SLabel("continue")>>, NoRet),
      Block(<<SGoto("continue")>>, NoRet)>>

\* for x = 1, 3 do if 1 < x then break end end
PForBreak ==
    <<Block(<<SLocalNoInit(<<"a">>), SForNum("x", <<EInt(1), EInt(3)>>, 2)>>, NoRet),
      Block(<<SIf(<<Lt(EInt(1), X)>>, <<3>>)>>, NoRet),
      Block(<<SBreak>>, NoRet)>>

\* local a, b = 1, 2  a, b = b, a  print(a)  print(b)
PSwap ==
    <<Block(<<SLocal(<<"a", "b">>, <<EInt(1), EInt(2)>>),
              SAssign(<<"a", "b">>, <<EName("b"), EName("a")>>),
              StatPrint(EName("a")), StatPrint(EName("b"))>>, NoRet)>>

\* local t = {10, 20}  t[1], t[2] = t[2], t[1]  print(t[1])  t.x = 5  print(t.x)
PSwapFields ==
    <<Block(<<SLocal(<<"t">>, <<ETable(<<FPos(EInt(10)), FPos(EInt(20))>>)>>),
              SAssignTo(<<EIndex("t", EInt(1)), EIndex("t", EInt(2))>>,
                        <<EIndex("t", EInt(2)), EIndex("t", EInt(1))>>),
              StatPrint(EIndex("t", EInt(1))),
              SAssignTo(<<EDot("t", "x")>>, <<EInt(5)>>),
              StatPrint(EDot("t", "x"))>>, NoRet)>>

\* local a, b, c = 1, 2, 3  a, b, c = 4  a = 5, 6  print(b)  u.x = 1
PAssignAdjust ==
    <<Block(<<SLocal(<<"a", "b", "c">>, <<EInt(1), EInt(2), EInt(3)>>),
              SAssign(<<"a", "b", "c">>, <<EInt(4)>>),
              SAssign(<<"a">>, <<EInt(5), EInt(6)>>),
              StatPrint(EName("b")),
              SAssignTo(<<EDot("u", "x")>>, <<EInt(1)>>)>>, NoRet)>>

\* function g() return 7, 8 end  local a, b, c  a, b, c = g()  a, b = g(), 1
\* a = g()
PAssignCall ==
    <<Block(<<SFunction("g", <<>>, 2), SLocalNoInit(<<"a", "b", "c">>),
              SAssign(<<"a", "b", "c">>, <<ECall("g", <<>>)>>),
              SAssign(<<"a", "b">>, <<ECall("g", <<>>), EInt(1)>>),
              SAssign(<<"a">>, <<ECall("g", <<>>)>>)>>, NoRet),
      Block(<<>>, Ret(<<EInt(7), EInt(8)>>))>>

\* function v(...) local a, b  a, b = ...  a = ...  print(a) end  v(7, 8)
PAssignVararg ==
    <<Block(<<SFunction("v", <<"...">>, 2), SCall("v", <<EInt(7), EInt(8)>>)>>, NoRet),
      Block(<<SLocalNoInit(<<"a", "b">>), SAssign(<<"a", "b">>, <<EVararg>>),
              SAssign(<<"a">>, <<EVararg>>), StatPrint(EName("a"))>>, NoRet)>>

\* function g() print(1) return 2 end
\* local r = false and g()  print(r)  r = 5 or g()  print(r)
PSkip ==
    <<Block(<<SFunction("g", <<>>, 2),
              SLocal(<<"r">>, <<EBin("and", EFalse, ECall("g", <<>>))>>),
              StatPrint(EName("r")),
              SAssign(<<"r">>, <<EBin("or", EInt(5), ECall("g", <<>>))>>),
              StatPrint(EName("r"))>>, NoRet),
      Block(<<StatPrint(EInt(1))>>, Ret(<<EInt(2)>>))>>

\* function g() n = 1 return 2 end
\* local r = true and g()  print(r)  r = nil or g()  print(1 + g())
PTake ==
    <<Block(<<SFunction("g", <<>>, 2),
              SLocal(<<"r">>, <<EBin("and", ETrue, ECall("g", <<>>))>>),
              StatPrint(EName("r")),
              SAssign(<<"r">>, <<EBin("or", ENil, ECall("g", <<>>))>>),
              StatPrint(Add(EInt(1), ECall("g", <<>>)))>>, NoRet),
      Block(<<SAssign(<<"n">>, <<EInt(1)>>)>>, Ret(<<EInt(2)>>))>>

(***************************************************************************)
(* The numeric for loops  for x = start, limit, step do print(x) end, each *)
(* of the three an int or a double.  A double is kept as the integer it    *)
(* equals: every double of these programs is integral.                     *)
(***************************************************************************)
MaxCount == 5

Num(isdouble, n) == IF isdouble THEN EDbl(n) ELSE EInt(n)

ForRanges == <<<<1, 0, 1>>, <<0, MaxCount, 2>>, <<MaxCount, 0, -1>>, <<1, 3, 1>>>>

ForKinds == <<<<FALSE, FALSE, FALSE>>, <<TRUE, FALSE, FALSE>>, <<FALSE, TRUE, FALSE>>,
              <<FALSE, FALSE, TRUE>>, <<TRUE, TRUE, TRUE>>>>

PFor(r, d) ==
    <<Block(<<SForNum("x", <<Num(d[1], r[1]), Num(d[2], r[2]), Num(d[3], r[3])>>, 2)>>,
            NoRet),
      Block(<<StatPrint(X)>>, NoRet)>>

ForPrograms ==
    [n \in 1..(Len(ForRanges) * Len(ForKinds)) |->
        PFor(ForRanges[((n - 1) \div Len(ForKinds)) + 1],
             ForKinds[((n - 1) % Len(ForKinds)) + 1])]

\* local x = 1  do local x = 2  local f = function() return x end  print(f()) end
PCloseShadow ==
    <<Block(<<SLocal(<<"x">>, <<EInt(1)>>), SDo(2)>>, NoRet),
      Block(<<SLocal(<<"x">>, <<EInt(2)>>), SLocal(<<"f">>, <<EFunc(<<>>, 3)>>),
              StatPrint(ECall("f", <<>>))>>, NoRet),
      Block(<<>>, Ret(<<X>>))>>

\* local a = 1  do local b = 2  local f = function() return b end  print(f()) end
PCloseNested ==
    <<Block(<<SLocal(<<"a">>, <<EInt(1)>>), SDo(2)>>, NoRet),
      Block(<<SLocal(<<"b">>, <<EInt(2)>>), SLocal(<<"f">>, <<EFunc(<<>>, 3)>>),
              StatPrint(ECall("f", <<>>))>>, NoRet),
      Block(<<>>, Ret(<<EName("b")>>))>>

\* local f  do local x = 1  f = function() x = x + 1 return x end  x = 5
\* print(f())  print(x) end  print(f())
PClosure ==
    <<Block(<<SLocalNoInit(<<"f">>), SDo(2), StatPrint(ECall("f", <<>>))>>, NoRet),
      Block(<<SLocal(<<"x">>, <<EInt(1)>>), SAssign(<<"f">>, <<EFunc(<<>>, 3)>>),
              SAssign(<<"x">>, <<EInt(5)>>), StatPrint(ECall("f", <<>>)),
              StatPrint(X)>>, NoRet),
      Block(<<SAssign(<<"x">>, <<Add(X, EInt(1))>>)>>, Ret(<<X>>))>>

\* local function f(n) if n < 1 then return 0 end return f(n - 1) end
\* print(f(1))
PLocalFunction ==
    <<Block(<<SLocalFunction("f", <<"n">>, 2),
              StatPrint(ECall("f", <<EInt(1)>>))>>, NoRet),
      Block(<<SIf(<<Lt(EName("n"), EInt(1))>>, <<3>>)>>,
            Ret(<<ECall("f", <<EBin("-", EName("n"), EInt(1))>>)>>)),
      Block(<<>>, Ret(<<EInt(0)>>))>>

\* local function g() return 1 end  print(g())
PLocalNoParams ==
    <<Block(<<SLocalFunction("g", <<>>, 2), StatPrint(ECall("g", <<>>))>>, NoRet),
      Block(<<>>, Ret(<<EInt(1)>>))>>

\* local f = 1  function f() return 2 end  print(f)
PFunctionLocal ==
    <<Block(<<SLocal(<<"f">>, <<EInt(1)>>), SFunction("f", <<>>, 2),
              StatPrint(EName("f"))>>, NoRet),
      Block(<<>>, Ret(<<EInt(2)>>))>>

\* local t = {x = 1}  function t.m() return 1 end  print(t.m)
PMethod ==
    <<Block(<<SLocal(<<"t">>, <<ETable(<<FName("x", EInt(1))>>)>>),
              SMethod("t", "m", <<>>, 2), StatPrint(EDot("t", "m"))>>, NoRet),
      Block(<<>>, Ret(<<EInt(1)>>))>>

\* local t = {m = 0}  function t.m() return 1 end  print(t.m)
PMethodAgain ==
    <<Block(<<SLocal(<<"t">>, <<ETable(<<FName("m", EInt(0))>>)>>),
              SMethod("t", "m", <<>>, 2), StatPrint(EDot("t", "m"))>>, NoRet),
      Block(<<>>, Ret(<<EInt(1)>>))>>

\* local n = 1  function n.m() end
PMethodNoTable ==
    <<Block(<<SLocal(<<"n">>, <<EInt(1)>>), SMethod("n", "m", <<>>, 2)>>, NoRet),
      Block(<<>>, NoRet)>>

\* function u.m() end
PMethodUnbound ==
    <<Block(<<SMethod("u", "m", <<>>, 2)>>, NoRet), Block(<<>>, NoRet)>>

\* function it(s, c) if c < 1 then return c + 1 end end
\* for x in it, 0, 0 do print(x) end
PForInPlain ==
    <<Block(<<SFunction("it", <<"s", "c">>, 2),
              SForIn(<<"x">>, <<EName("it"), EInt(0), EInt(0)>>, 4)>>, NoRet),
      Block(<<SIf(<<Lt(EName("c"), EInt(1))>>, <<3>>)>>, NoRet),
      Block(<<>>, Ret(<<Add(EName("c"), EInt(1))>>)),
      Block(<<StatPrint(X)>>, NoRet)>>

\* function it(s, c) if c < 1 then return c + 1 end end
\* for x in it do print(x) end
PForInAlone ==
    <<Block(<<SFunction("it", <<"s", "c">>, 2),
              SForIn(<<"x">>, <<EName("it")>>, 4)>>, NoRet),
      Block(<<SIf(<<Lt(EName("c"), EInt(1))>>, <<3>>)>>, NoRet),
      Block(<<>>, Ret(<<Add(EName("c"), EInt(1))>>)),
      Block(<<StatPrint(X)>>, NoRet)>>

\* local t = {}  local u = {}  t.k = 5  print(t.k)  print(u.z)  print(w)
PAbsentKey ==
    <<Block(<<SLocal(<<"t", "u">>, <<ETable(<<>>), ETable(<<>>)>>),
              SAssignTo(<<EDot("t", "k")>>, <<EInt(5)>>),
              StatPrint(EDot("t", "k")), StatPrint(EDot("u", "z")),
              StatPrint(EName("w"))>>, NoRet)>>

\* local t = {10, 20}  print(#t)  t[2] = nil  print(#t)  print(#"a")
PBorder ==
    <<Block(<<SLocal(<<"t">>, <<ETable(<<FPos(EInt(10)), FPos(EInt(20))>>)>>),
              StatPrint(ELen(EName("t"))),
              SAssignTo(<<EIndex("t", EInt(2))>>, <<ENil>>),
              StatPrint(ELen(EName("t"))), StatPrint(ELen(EStr("a")))>>, NoRet)>>

(***************************************************************************)
(* The gotos: three statements of the main block, each one of              *)
(*   goto L | ::L:: | local x = 1 | function f() end | do goto L end |     *)
(*   do ::L:: end                                                          *)
(* the body of statement i being block 1 + i.                              *)
(***************************************************************************)
GotoKinds == <<"goto", "label", "local", "function", "dogoto", "dolabel">>

GotoStat(kind, i) ==
    CASE kind = "goto" -> SGoto("L")
      [] kind = "label" -> SLabel("L")
      [] kind = "local" -> SLocal(<<"x">>, <<EInt(1)>>)
      [] kind = "function" -> SFunction("f", <<>>, 1 + i)
      [] OTHER -> SDo(1 + i)

GotoBody(kind) ==
    CASE kind = "dogoto" -> Block(<<SGoto("L")>>, NoRet)
      [] kind = "dolabel" -> Block(<<SLabel("L")>>, NoRet)
      [] OTHER -> Block(<<>>, NoRet)

PGoto(a, b, c) ==
    <<Block(<<GotoStat(a, 1), GotoStat(b, 2), GotoStat(c, 3)>>, NoRet),
      GotoBody(a), GotoBody(b), GotoBody(c)>>

GotoPrograms ==
    [n \in 1..216 |->
        PGoto(GotoKinds[((n - 1) \div 36) + 1], GotoKinds[(((n - 1) \div 6) % 6) + 1],
              GotoKinds[((n - 1) % 6) + 1])]

(***************************************************************************)
(* The breaks: two statements of the main block, each one of               *)
(*   break | while false do break end |                                    *)
(*   while false do if true then break end end |                           *)
(*   while false do function f() break end end | function f() break end |  *)
(*   while false do end                                                    *)
(* statement i owning the blocks 2i and 2i + 1.                            *)
(***************************************************************************)
BreakKinds == <<"break", "loop", "deep", "inner", "function", "ended">>

BreakStat(kind, i) ==
    CASE kind = "break" -> SBreak
      [] kind = "function" -> SFunction("f", <<>>, 2 * i)
      [] OTHER -> SWhile(EFalse, 2 * i)

BreakBlocks(kind, i) ==
    CASE kind = "loop" -> <<Block(<<SBreak>>, NoRet), Block(<<>>, NoRet)>>
      [] kind = "deep" -> <<Block(<<SIf(<<ETrue>>, <<2 * i + 1>>)>>, NoRet),
                            Block(<<SBreak>>, NoRet)>>
      [] kind = "inner" -> <<Block(<<SFunction("f", <<>>, 2 * i + 1)>>, NoRet),
                             Block(<<SBreak>>, NoRet)>>
      [] kind = "function" -> <<Block(<<SBreak>>, NoRet), Block(<<>>, NoRet)>>
      [] OTHER -> <<Block(<<>>, NoRet), Block(<<>>, NoRet)>>

PBreak(a, b) ==
    <<Block(<<BreakStat(a, 1), BreakStat(b, 2)>>, NoRet)>>
        \o BreakBlocks(a, 1) \o BreakBlocks(b, 2)

BreakPrograms ==
    [n \in 1..36 |->
        PBreak(BreakKinds[((n - 1) \div 6) + 1], BreakKinds[((n - 1) % 6) + 1])]

(***************************************************************************)
(* expect_failure(e): e is a type error of an operator, of a dot, of a     *)
(* call, of a conversion of a string, no error at all, or a call of f,     *)
(* whose body raises the type error of an operator                         *)
(***************************************************************************)
ExpectExps ==
    <<EBin("+", EInt(1), ENil), EDot("x", "y"), ECall("g", <<>>),
      EBin("+", EStr("a"), EInt(1)), EInt(1), ECall("f", <<>>),
      EBin("<", EInt(1), ENil), ELen(EInt(1))>>

PExpect(e) ==
    <<Block(<<SLocal(<<"a">>, <<EInt(1)>>), SFunction("f", <<>>, 2),
              SCall("expect_failure", <<e>>), StatPrint(EName("a"))>>, NoRet),
      Block(<<SLocal(<<"a">>, <<EInt(2)>>),
              StatPrint(EBin("+", EInt(1), ENil))>>, NoRet)>>

ExpectPrograms == [i \in 1..Len(ExpectExps) |-> PExpect(ExpectExps[i])]

(***************************************************************************)
(* goto out of nested blocks that have declared locals: out of a do and an *)
(* if, out of the body of a while and a do, out of the body of a numeric   *)
(* for, and inside the body of a function                                  *)
(***************************************************************************)
PGotoDoIf ==
    <<Block(<<SDo(2), SLabel("L"), StatPrint(EInt(1))>>, NoRet),
      Block(<<SLocal(<<"a">>, <<EInt(1)>>), SIf(<<ETrue>>, <<3>>)>>, NoRet),
      Block(<<SLocal(<<"b">>, <<EInt(2)>>), SGoto("L")>>, NoRet)>>

PGotoWhileDo ==
    <<Block(<<SWhile(ETrue, 2), SLabel("out"), StatPrint(EInt(1))>>, NoRet),
      Block(<<SLocal(<<"a">>, <<EInt(1)>>), SDo(3)>>, NoRet),
      Block(<<SLocal(<<"b">>, <<EInt(2)>>), SGoto("out")>>, NoRet)>>

PGotoFor ==
    <<Block(<<SForNum("i", <<EInt(1), EInt(2)>>, 2), SLabel("out"),
              StatPrint(EInt(1))>>, NoRet),
      Block(<<SLocal(<<"a">>, <<EInt(1)>>), SGoto("out")>>, NoRet)>>

PGotoInFunction ==
    <<Block(<<SFunction("f", <<>>, 2), SCall("f", <<>>), StatPrint(EInt(1))>>, NoRet),
      Block(<<SDo(3), SLabel("L")>>, Ret(<<EInt(1)>>)),
      Block(<<SLocal(<<"a">>, <<EInt(1)>>), SDo(4)>>, NoRet),
      Block(<<SLocal(<<"b">>, <<EInt(2)>>), SGoto("L")>>, NoRet)>>

CrossPrograms == <<PGotoDoIf, PGotoWhileDo, PGotoFor, PGotoInFunction>>

(***************************************************************************)
(* The comparisons print(l == r) and print(l ~= r), and the checks         *)
(* ensure_value_type(l, r, type), for l and r among these literals.        *)
(***************************************************************************)
Literals ==
    <<ENil, ETrue, EFalse, EInt(1), EDbl(1), EHalf(1), EStr("a"), EStr("1")>>

\* the type name ensure_value_type is given for the literal
LiteralType(e) ==
    CASE e.k = "nil" -> "nil"
      [] e.k \in {"true", "false"} -> "bool"
      [] e.k = "int" -> "int"
      [] e.k \in {"double", "half"} -> "double"
      [] OTHER -> "string"

PEq(op, l, r) ==
    <<Block(<<StatPrint(EBin(op, l, r)), StatPrint(EInt(0))>>, NoRet)>>

PEnsure(l, r) ==
    <<Block(<<SCall("ensure_value_type", <<l, r, EStr(LiteralType(l))>>),
              StatPrint(EInt(0))>>, NoRet)>>

EqPrograms ==
    [n \in 1..(Len(Literals) * Len(Literals)) |->
        PEq("==", Literals[((n - 1) \div Len(Literals)) + 1],
                  Literals[((n - 1) % Len(Literals)) + 1])]

NePrograms ==
    [n \in 1..(Len(Literals) * Len(Literals)) |->
        PEq("~=", Literals[((n - 1) \div Len(Literals)) + 1],
                  Literals[((n - 1) % Len(Literals)) + 1])]

EnsurePrograms ==
    [n \in 1..(Len(Literals) * Len(Literals)) |->
        PEnsure(Literals[((n - 1) \div Len(Literals)) + 1],
                Literals[((n - 1) % Len(Literals)) + 1])]

\* local t = {}  local u = {}  print(t == t)
PEqTable ==
    <<Block(<<SLocal(<<"t", "u">>, <<ETable(<<>>), ETable(<<>>)>>),
              StatPrint(EBin("==", EName("t"), EName("t")))>>, NoRet)>>

\* local t = {}  local u = {}  print(t ~= u)
PNeTable ==
    <<Block(<<SLocal(<<"t", "u">>, <<ETable(<<>>), ETable(<<>>)>>),
              StatPrint(EBin("~=", EName("t"), EName("u")))>>, NoRet)>>

(***************************************************************************)
(* The constructors of three fields, each field being one of: a value, a   *)
(* nil, [2] = value, x = value, [nil] = value; the value of the i-th field *)
(* is 10 * i.                                                              *)
(***************************************************************************)
FieldKinds == <<"value", "nil", "key", "name", "nilkey">>

Field(kind, i) ==
    CASE kind = "value" -> FPos(EInt(10 * i))
      [] kind = "nil" -> FPos(ENil)
      [] kind = "key" -> FKey(EInt(2), EInt(10 * i))
      [] kind = "name" -> FName("x", EInt(10 * i))
      [] OTHER -> FKey(ENil, EInt(10 * i))

\* local t = {field, field, field}  print(t[2])
PTable(fields) ==
    <<Block(<<SLocal(<<"t">>, <<ETable(fields)>>),
              StatPrint(EIndex("t", EInt(2)))>>, NoRet)>>

TablePrograms ==
    [n \in 1..(Len(FieldKinds) * Len(FieldKinds) * Len(FieldKinds)) |->
        PTable(<<Field(FieldKinds[((n - 1) \div (Len(FieldKinds) * Len(FieldKinds))) + 1], 1),
                 Field(FieldKinds[(((n - 1) \div Len(FieldKinds)) % Len(FieldKinds)) + 1], 2),
                 Field(FieldKinds[((n - 1) % Len(FieldKinds)) + 1], 3)>>)]

Programs ==
    <<PWhileBreak, PWhileEnd, PGotoNested, PGotoForward, PGotoBack, PGotoSelf,
      PRecursion,
      PReturnDeep, PBreakInFunction, PLonelyBreak, PVariadic, PFormals, PArgsCall,
      PArgsVararg, PShadowDo, PShadowFor, PShadowForIn, PForAssign, PForNestedBreak,
      PForContinue, PForBreak, PFunctiondef,
      PSwap, PSwapFields, PAssignAdjust, PAssignCall, PAssignVararg,
      PSkip, PTake, PEqTable, PNeTable,
      PCloseShadow, PCloseNested,
      PClosure,
      PLocalFunction, PLocalNoParams,
      PFunctionLocal, PMethod, PMethodAgain, PMethodNoTable, PMethodUnbound,
      PForInPlain, PForInAlone,
      PAbsentKey,
      PBorder>>
        \o ForPrograms \o EqPrograms \o NePrograms \o EnsurePrograms
        \o TablePrograms \o GotoPrograms \o BreakPrograms
        \o ExpectPrograms \o CrossPrograms

\* the analysis the constructor leaves in _listener, per program
Analysis == [p \in 1..Len(Programs) |-> Analyze(Programs[p])]

(***************************************************************************)
(* Interpreter state.                                                      *)
(*   stack   the activations of the visitor's methods, innermost last      *)
(*   retval  what the last finished visit returned                         *)
(*   exc     the exception being propagated, if any                        *)
(*   heap    the Value cells made by new; an address is an index, 0 is     *)
(*           nullptr, a cell with no reference left has been deleted       *)
(*   funcs   the Function objects                                          *)
(*   tables  the Table objects: the sub-maps as one map from a key (its    *)
(*           tag and value) to the address of the Value the map holds      *)
(*   out     the lines written to std::cout                                *)
(*   _references  the count GC::_references holds for each Table*, without *)
(*           the temporaries of the statement in progress (they are copied *)
(*           and destroyed in pairs); 0 when the table has been deleted    *)
(* The foreign-function bridge:                                            *)
(*   builder  the CurriedFunctionBuilder of a native callable: _function   *)
(*            is the callable, known by the types of its parameters        *)
(*   bridges  the CurriedFunction instances the builder has made           *)
(*   invoked  the invocations of the native callable: their arguments      *)
(*   host     the calls the host has made on the bridge, with what each    *)
(*            threw                                                        *)
(***************************************************************************)
VARIABLES prog, tree, _listener, status, stack, retval, exc, _blocks, _local_values, _global_values,
          _functions, _coming_from_for, _coming_from_funcall, heap, funcs, tables, out,
          _references, builder, bridges, invoked, host

vars == <<prog, tree, _listener, status, stack, retval, exc, _blocks, _local_values, _global_values,
          _functions, _coming_from_for, _coming_from_funcall, heap, funcs, tables, out,
          _references, builder, bridges, invoked, host>>

VNil == [t |-> "nil", v |-> 0]
VBool(b) == [t |-> "bool", v |-> IF b THEN 1 ELSE 0]
VInt(n) == [t |-> "int", v |-> n]
VDouble(n) == [t |-> "double", v |-> n]
VFunction(f) == [t |-> "function", v |-> f]
VElipsis(vals) == [t |-> "elipsis", v |-> vals]
VString(s) == [t |-> "string", v |-> s]
VTable(id) == [t |-> "table", v |-> id]
\* the double n + 0.5; every other double is kept as the integer it equals
VHalf(n) == [t |-> "double", v |-> n, half |-> TRUE]
IsHalf(v) == "half" \in DOMAIN v
\* twice the number a Value of tag int or double holds
Twice(v) == 2 * v.v + (IF IsHalf(v) THEN 1 ELSE 0)

\* Types::Var: a free Value, a pointer to a cell, or a list of Values
RV(val) == [k |-> "rvalue", val |-> val]
LV(addr) == [k |-> "lvalue", addr |-> addr]
ListV(vals) == [k |-> "list", list |-> vals]

NoExc == [k |-> "none", label |-> "", vals |-> <<>>]
Throw(k) == [k |-> k, label |-> "", vals |-> <<>>]

Range(f) == {f[n] : n \in DOMAIN f}
EmptyStore == [n \in {} |-> 0]
EmptyFrame == [b \in 0..Len(tree) |-> EmptyStore]
StorePut(store, name, addr) ==
    [n \in DOMAIN store \cup {name} |-> IF n = name THEN addr ELSE store[n]]

\* a pointer that must not be dereferenced: null, or to a deleted cell
Dangling(h, a) == IF a = 0 THEN TRUE ELSE h[a].refs = 0

\* Var::get, read through whatever the pointer still points to
get(h, var) ==
    CASE var.k = "rvalue" -> var.val
      [] var.k = "lvalue" -> h[var.addr].val
      [] var.k = "list" -> var.list[1]

\* the Var reads a cell that is null or deleted
BadRead(h, var) == var.k = "lvalue" /\ Dangling(h, var.addr)

\* Value::value_as_string: an int and the double equal to it print alike
value_as_string(v) ==
    CASE v.t = "nil" -> <<"nil">>
      [] v.t \in {"int", "double"} ->
            IF IsHalf(v) THEN <<"number", v.v, ".5">> ELSE <<"number", v.v>>
      [] v.t = "bool" -> <<IF v.v = 1 THEN "true" ELSE "false">>
      [] v.t = "function" -> <<"function", v.v>>
      [] v.t = "string" -> <<v.v>>
      [] v.t = "table" -> <<"table", v.v>>
      [] OTHER -> <<"unknown type">>

as_bool_weak(v) == IF v.t = "bool" THEN v.v = 1 ELSE v.t # "nil"

IsNumber(v) == v.t \in {"int", "double"}

current_block == IF _blocks = <<>> THEN 0 ELSE Last(_blocks)
current_function == IF _functions = <<>> THEN 0 ELSE Last(_functions)

\* lookup_name(name, false) with G as _global_values: the pointer (0 when
\* the name is bound nowhere) and the scope it was found in
lookup_name(G, name) ==
    LET contexts == get_context_for_local(_listener, current_block, name)
        frame == Last(_local_values)
        live == SelectSeq(contexts, LAMBDA c : name \in DOMAIN frame[c])
    IN  IF live # <<>> THEN [ptr |-> frame[Last(live)][name], scope |-> "LOCAL"]
        ELSE IF current_function # 0 /\ name \in DOMAIN funcs[current_function].closure
        THEN [ptr |-> funcs[current_function].closure[name], scope |-> "CLOSURE"]
        ELSE IF name \in DOMAIN G THEN [ptr |-> G[name], scope |-> "GLOBAL"]
        ELSE [ptr |-> 0, scope |-> "GLOBAL"]

Ok(v) == [ok |-> TRUE, val |-> v]
\* the visit throws: kind is the class of the exception
Failure(kind) == [ok |-> FALSE, val |-> VNil, kind |-> kind]
\* Exceptions::BadTypeException and ContextlessBadTypeException
BadType == Failure("BadType")

\* std::stod on the strings of the programs: a numeral, or a string that
\* is no number (std::invalid_argument)
stod(str) ==
    CASE str = "0" -> Ok(VDouble(0))
      [] str = "1" -> Ok(VDouble(1))
      [] str = "2" -> Ok(VDouble(2))
      [] OTHER -> Failure("invalid_argument")

\* Value::as_double_weak
as_double_weak(v) ==
    IF v.t = "double" THEN Ok(v)
    ELSE IF v.t = "int" THEN Ok(VDouble(v.v))
    ELSE IF v.t = "string" THEN stod(v.v)
    ELSE BadType

\* the double that is half of n
FromTwice(n) == IF n % 2 = 0 THEN VDouble(n \div 2) ELSE VHalf((n - 1) \div 2)

\* the operators of visitExp on two evaluated operands
Arith(op, l, r) ==
    IF l.t = "int" /\ r.t = "int"
    THEN Ok(VInt(IF op = "+" THEN l.v + r.v ELSE l.v - r.v))
    ELSE LET left == as_double_weak(l)
             right == as_double_weak(r)
         IN  IF ~left.ok THEN left
             ELSE IF ~right.ok THEN right
             ELSE Ok(FromTwice(IF op = "+" THEN Twice(left.val) + Twice(right.val)
                               ELSE Twice(left.val) - Twice(right.val)))

\* the comparison operators: both operands by as_double_weak, then the
\* comparison of the two doubles
Comparison(op, l, r) ==
    LET left == as_double_weak(l)
        right == as_double_weak(r)
    IN  IF ~left.ok THEN left
        ELSE IF ~right.ok THEN right
        ELSE Ok(VBool(CASE op = "<" -> Twice(left.val) < Twice(right.val)
                        [] op = "<=" -> Twice(left.val) <= Twice(right.val)
                        [] op = ">" -> Twice(left.val) > Twice(right.val)
                        [] op = ">=" -> Twice(left.val) >= Twice(right.val)
                        [] op = "==" -> Twice(left.val) = Twice(right.val)
                        [] op = "~=" -> Twice(left.val) # Twice(right.val)))

\* operatorAnd and operatorOr on the two operands, both already evaluated
Logical(op, l, r) ==
    IF op = "and" THEN (IF as_bool_weak(l) THEN r ELSE l)
    ELSE (IF as_bool_weak(l) THEN l ELSE r)

\* the key a Value is in the sub-maps of a Table
KeyOf(v) == <<v.t, v.v>>

\* Table::border on the table T: the end of the first run of consecutive
\* keys among the positive keys of _int_fields, 0 when there is none
border(T) ==
    LET keys == {key[2] : key \in {k \in DOMAIN T : k[1] = "int" /\ k[2] > 0}}
        first == CHOOSE n \in keys : \A m \in keys : n <= m
    IN  IF keys = {} THEN 0
        ELSE CHOOSE n \in keys :
                /\ \A m \in first..n : m \in keys
                /\ n + 1 \notin keys

\* std::string::size for the strings of the programs
size(s) == IF s = "" THEN 0 ELSE 1

\* &Value::_nil: the canonical nil is the first cell
_nil == 1

\* the set_nil that Table::subscript(value) and Table::dot(name) work
\* with: no caller gives one, in a varlist or elsewhere, and a lookup
\* makes a slot only when it is told to
set_nil(varlist) == FALSE

\* Table::FieldGetter on the table tab: the address of the Value under the
\* key, and the table and cells afterwards.  On a miss a slot that is a
\* copy of Value::_nil is made if set_nil, and &Value::_nil is returned
\* otherwise; the two slots of the bool keys are always there
FieldGetter(h, T, tab, key, varlist) ==
    IF key \in DOMAIN T[tab] THEN [heap |-> h, tables |-> T, addr |-> T[tab][key]]
    ELSE IF set_nil(varlist) \/ key[1] = "bool"
    THEN [heap |-> Append(h, [val |-> IF key[1] = "bool" THEN VNil ELSE h[_nil].val,
                              refs |-> 1]),
          tables |-> [T EXCEPT ![tab] = [k \in DOMAIN @ \cup {key} |->
                                            IF k = key THEN Len(h) + 1 ELSE @[k]]],
          addr |-> Len(h) + 1]
    ELSE [heap |-> h, tables |-> T, addr |-> _nil]

\* visitVar_ on NAME[exp] or NAME.field outside a varlist, from the Value of
\* NAME and the Value of the key: BadDotAccess for what is no table, and the
\* std::runtime_error of FieldGetter for a key that is nil or an Elipsis
Subscript(h, T, base, key) ==
    IF base.t # "table" THEN Failure("BadDotAccess")
    ELSE IF key.t \in {"nil", "elipsis"} THEN Failure("runtime_error")
    ELSE LET slot == FieldGetter(h, T, base.v, KeyOf(key), FALSE)
         IN  Ok(IF key.t = "bool" /\ KeyOf(key) \notin DOMAIN T[base.v] THEN VNil
                ELSE h[slot.addr].val)

\* visitExp on an expression without a call, a function, a table
\* constructor or "...": the Value of the Var it returns, or the error
RECURSIVE visitExp(_)
visitExp(e) ==
    CASE e.k = "nil" -> Ok(VNil)
      [] e.k = "true" -> Ok(VBool(TRUE))
      [] e.k = "false" -> Ok(VBool(FALSE))
      [] e.k = "int" -> Ok(VInt(e.n))
      [] e.k = "double" -> Ok(VDouble(e.n))
      [] e.k = "half" -> Ok(VHalf(e.n))
      [] e.k = "string" -> Ok(VString(e.s))
      [] e.k = "len" ->
            LET v == visitExp(e.e)
            IN  IF ~v.ok THEN v
                ELSE IF v.val.t = "string" THEN Ok(VInt(size(v.val.v)))
                ELSE IF v.val.t = "table" THEN Ok(VInt(border(tables[v.val.v])))
                ELSE Failure("bad_variant_access")
      [] e.k = "name" ->
            LET p == lookup_name(_global_values, e.name)
            IN  Ok(IF p.ptr # 0 THEN heap[p.ptr].val ELSE VNil)
      [] e.k = "index" ->
            LET p == lookup_name(_global_values, e.name)
                key == visitExp(e.key)
            IN  IF ~key.ok THEN key
                ELSE Subscript(heap, tables,
                               IF p.ptr # 0 THEN heap[p.ptr].val ELSE VNil, key.val)
      [] e.k = "binop" ->
            LET l == visitExp(e.l)
                r == visitExp(e.r)
            IN  IF ~l.ok THEN l
                ELSE IF ~r.ok THEN r
                ELSE IF e.op \in {"+", "-"} THEN Arith(e.op, l.val, r.val)
                ELSE IF e.op \in {"and", "or"} THEN Ok(Logical(e.op, l.val, r.val))
                ELSE Comparison(e.op, l.val, r.val)

RECURSIVE IsPure(_)
\* no call, function, table constructor or "..." anywhere in e
IsPure(e) ==
    IF e.k = "binop" THEN IsPure(e.l) /\ IsPure(e.r)
    ELSE IF e.k = "len" THEN IsPure(e.e)
    ELSE e.k \notin {"call", "functiondef", "vararg", "table"}

(***************************************************************************)
(* The memory the block bookkeeping works on: M.lv is _local_values,       *)
(* M.heap the cells, M.blocks is _blocks, and M.ub is set once a step has  *)
(* used a null or deleted pointer, or an element a vector does not have.   *)
(***************************************************************************)
Mem == [lv |-> _local_values, heap |-> heap, blocks |-> _blocks, ub |-> FALSE]

\* Value::remove_reference on every cell of a store
clear_block(h, store) ==
    [a \in 1..Len(h) |->
        IF a \in Range(store) THEN [h[a] EXCEPT !.refs = @ - 1] ELSE h[a]]

erase_block(M, context) ==
    LET store == Last(M.lv)[context]
    IN  IF \E n \in DOMAIN store : Dangling(M.heap, store[n])
        THEN [M EXCEPT !.ub = TRUE]
        ELSE [M EXCEPT !.lv[Len(M.lv)][context] = EmptyStore,
                       !.heap = clear_block(M.heap, store)]

RECURSIVE EraseFrom(_, _)
\* the loop of stabilize_blocks: erase_block(_blocks[j]) from j to the end
EraseFrom(M, j) ==
    IF j > Len(M.blocks) \/ M.ub THEN M
    ELSE EraseFrom(erase_block(M, M.blocks[j]), j + 1)

\* stabilize_blocks without _blocks.resize(n + 1)
stabilize_blocks_unresized(M, context) ==
    IF M.blocks = <<>> THEN [M EXCEPT !.ub = TRUE]
    ELSE IF Last(M.blocks) = context THEN M
    ELSE LET at == {j \in 1..Len(M.blocks) : M.blocks[j] = context}
             n == CHOOSE j \in at : \A i \in at : i <= j
         IN  IF at = {} THEN [M EXCEPT !.ub = TRUE]
             ELSE EraseFrom(M, n)

stabilize_blocks(M, context) ==
    IF M.blocks = <<>> THEN [M EXCEPT !.ub = TRUE]
    ELSE IF Last(M.blocks) = context THEN M
    ELSE LET at == {j \in 1..Len(M.blocks) : M.blocks[j] = context}
             n == CHOOSE j \in at : \A i \in at : i <= j
         IN  IF at = {} THEN [M EXCEPT !.ub = TRUE]
             ELSE [EraseFrom(M, n) EXCEPT !.blocks = SubSeq(M.blocks, 1, n)]

\* new Types::Value(): the heap with one more cell, whose address is its length
New(h, val) == Append(h, [val |-> val, refs |-> 1])

\* a closure that holds no reference on the cell it captures
add_reference_none(h, a) == h

\* Value::add_reference on the cell a
add_reference(h, a) == [h EXCEPT ![a].refs = @ + 1]

RECURSIVE CloseStore(_, _, _)
\* Function::close on every (name, cell) of the stores of the parents, in
\* order; twice is set when a name is closed a second time
CloseStore(C, pairs, i) ==
    IF i > Len(pairs) \/ C.twice THEN C
    ELSE IF pairs[i].name \in DOMAIN C.closure THEN [C EXCEPT !.twice = TRUE]
    ELSE CloseStore([C EXCEPT !.closure = StorePut(@, pairs[i].name, pairs[i].addr),
                              !.heap = add_reference(@, pairs[i].addr)], pairs, i + 1)

RECURSIVE StorePairs(_, _)
\* the (name, cell) pairs of the stores of the blocks ctxs, in order
StorePairs(frame, ctxs) ==
    IF ctxs = <<>> THEN <<>>
    ELSE LET store == frame[ctxs[1]]
             RECURSIVE Pairs(_)
             Pairs(ns) == IF ns = {} THEN <<>>
                          ELSE LET n == CHOOSE m \in ns : TRUE
                               IN  <<[name |-> n, addr |-> store[n]]>> \o Pairs(ns \ {n})
         IN  Pairs(DOMAIN store) \o StorePairs(frame, Tail(ctxs))

\* new Function(params, body) followed by close_function(function, body)
close_function(h, params, body) ==
    LET parents == get_parents_of_function(_listener, body)
    IN  CloseStore([closure |-> EmptyStore, heap |-> h, twice |-> FALSE],
                   StorePairs(Last(_local_values), parents), 1)

(***************************************************************************)
(* Steps.  Cur is the present state as a record and Set(S) makes S the     *)
(* next state, so that a step names only what it changes.                  *)
(***************************************************************************)
Cur ==
    [status |-> status, stack |-> stack, retval |-> retval, exc |-> exc,
     blocks |-> _blocks, lv |-> _local_values, globals |-> _global_values,
     functions |-> _functions, cff |-> _coming_from_for,
     cffc |-> _coming_from_funcall, heap |-> heap, funcs |-> funcs,
     tables |-> tables, out |-> out, gc |-> _references]

\* the Values of the cell that hold the table tab: the cell itself, or the
\* values of the Elipsis it holds; a deleted cell holds nothing
Holds(cell, tab) ==
    IF cell.refs = 0 THEN 0
    ELSE IF cell.val.t = "table" THEN (IF cell.val.v = tab THEN 1 ELSE 0)
    ELSE IF cell.val.t = "elipsis"
    THEN Cardinality({i \in DOMAIN cell.val.v :
                        cell.val.v[i].t = "table" /\ cell.val.v[i].v = tab})
    ELSE 0

RECURSIVE Gained(_, _, _, _), Destroyed(_, _, _, _)
\* the references added for tab by the cells of h1 up to a that did not hold
\* it in h0: Value(Value const&), Value::operator= and the add_reference
\* that follows each `value() = ...`
Gained(h0, h1, tab, a) ==
    IF a = 0 THEN 0
    ELSE LET before == IF a <= Len(h0) THEN Holds(h0[a], tab) ELSE 0
             now == Holds(h1[a], tab)
         IN  Gained(h0, h1, tab, a - 1) + (IF now > before THEN now - before ELSE 0)

\* the references removed for tab by the cells deleted between h0 and h1:
\* Value::~Value
Destroyed(h0, h1, tab, a) ==
    IF a = 0 THEN 0
    ELSE Destroyed(h0, h1, tab, a - 1)
            + (IF h0[a].refs > 0 /\ h1[a].refs = 0 THEN Holds(h0[a], tab) ELSE 0)

\* GC::_references after a step from the cells h0 to the cells h1; a cell
\* that is given another value keeps the reference of the old one unless
\* the step removed it
Counted(gc, h0, h1) ==
    [tab \in 1..Len(gc) |->
        gc[tab] + Gained(h0, h1, tab, Len(h1)) - Destroyed(h0, h1, tab, Len(h0))]

Set(S) ==
    /\ UNCHANGED <<prog, tree, _listener, builder, bridges, invoked, host>>
    /\ status' = S.status
    /\ stack' = S.stack
    /\ retval' = S.retval
    /\ exc' = S.exc
    /\ _blocks' = S.blocks
    /\ _local_values' = S.lv
    /\ _global_values' = S.globals
    /\ _functions' = S.functions
    /\ _coming_from_for' = S.cff
    /\ _coming_from_funcall' = S.cffc
    /\ heap' = S.heap
    /\ funcs' = S.funcs
    /\ tables' = S.tables
    /\ out' = S.out
    /\ _references' = Counted(S.gc, heap, S.heap)

\* the process dies on a null or deleted pointer
Crashed == [Cur EXCEPT !.status = "crashed"]

\* S with the memory M, unless computing M used a bad pointer
WithMem(S, M) ==
    IF M.ub THEN Crashed
    ELSE [S EXCEPT !.lv = M.lv, !.heap = M.heap, !.blocks = M.blocks]

Running == status = "running" /\ stack # <<>>
Quiet == exc.k = "none"
Top == Last(stack)
SetTop(fr) == [stack EXCEPT ![Len(stack)] = fr]
\* the top activation waits for the visits pushed above it
Call(pc, frames) == SetTop([Top EXCEPT !.pc = pc]) \o frames

BlockFrame(b) == [f |-> "block", b |-> b, i |-> 1, cff |-> FALSE, pc |-> "enter"]
ExplistFrame(es) == [f |-> "explist", es |-> es, i |-> 1, vals |-> <<>>, pc |-> "run"]

Init ==
    /\ prog \in 1..Len(Programs)
    /\ tree = Programs[prog]
    /\ _listener = Analysis[prog]
    /\ status = IF _listener.error = "none" THEN "running" ELSE "rejected"
    /\ stack = IF _listener.error = "none"
               THEN <<[f |-> "chunk", pc |-> "start"]>> ELSE <<>>
    /\ retval = <<>>
    /\ exc = NoExc
    /\ _blocks = <<>>
    /\ _local_values = <<>>
    /\ _global_values = EmptyStore
    /\ _functions = <<>>
    /\ _coming_from_for = FALSE
    /\ _coming_from_funcall = FALSE
    /\ heap = <<[val |-> VNil, refs |-> 1]>>
    /\ funcs = <<>>
    /\ tables = <<>>
    /\ out = <<>>
    /\ _references = <<>>
    /\ builder = [_function |-> <<>>]
    /\ bridges = <<>>
    /\ invoked = <<>>
    /\ host = <<>>

visitChunk ==
    /\ Running /\ Quiet /\ Top.f = "chunk" /\ Top.pc = "start"
    /\ Set([Cur EXCEPT !.lv = Append(@, EmptyFrame),
                       !.stack = Call("wait", <<BlockFrame(1)>>)])

\* the block returned, or the Return it threw is caught
visitChunkReturn ==
    /\ Running /\ Top.f = "chunk" /\ Top.pc = "wait"
    /\ exc.k \in {"none", "Return"}
    /\ Set([Cur EXCEPT !.stack = <<>>, !.status = "done", !.exc = NoExc,
                       !.retval = IF exc.k = "Return" THEN exc.vals ELSE @])

\* visitBlock up to its loop over the statements
visitBlock ==
    /\ Running /\ Quiet /\ Top.f = "block" /\ Top.pc = "enter"
    /\ Set([Cur EXCEPT
            !.cff = FALSE, !.cffc = FALSE,
            !.blocks = IF _coming_from_for \/ _coming_from_funcall
                       THEN @ ELSE Append(@, Top.b),
            !.stack = SetTop([Top EXCEPT !.cff = _coming_from_for, !.pc = "run"])])

Stats == tree[Top.b].stats
Stat == Stats[Top.i]
\* visitBlock is about to visit a statement of one of these kinds
AtStat(kinds) ==
    /\ Running /\ Quiet /\ Top.f = "block" /\ Top.pc = "run"
    /\ Top.i <= Len(Stats)
    /\ Stat.k \in kinds

\* ";" and a label do nothing
visitLabel ==
    /\ AtStat({"semi", "label"})
    /\ Set([Cur EXCEPT !.stack = SetTop([Top EXCEPT !.i = @ + 1])])

process_break ==
    /\ AtStat({"break"})
    /\ Set([Cur EXCEPT !.exc = Throw("Break"), !.stack = Call("wait", <<>>)])

process_goto ==
    /\ AtStat({"goto"})
    /\ Set([Cur EXCEPT !.exc = [Throw("Goto") EXCEPT !.label = Stat.name],
                       !.stack = Call("wait", <<>>)])

\* do block end
visitStatDo ==
    /\ AtStat({"do"})
    /\ Set([Cur EXCEPT !.stack = Call("wait", <<BlockFrame(Stat.body)>>)])

\* the statement returned: ++i
visitBlockNext ==
    /\ Running /\ Quiet /\ Top.f = "block" /\ Top.pc = "wait"
    /\ Set([Cur EXCEPT !.stack = SetTop([Top EXCEPT !.i = @ + 1, !.pc = "run"])])

\* LabelContext::getText(): the text of the tokens of ::NAME::
LabelText(s) == <<"::", s.name, "::">>

\* what reading Goto::_label can give: it refers to a temporary string of
\* visitStat that is destroyed while the exception unwinds
Garbage == "?"
GotoGet == {exc.label, Garbage}

\* catch (Exceptions::Goto& g) of visitBlock
visitBlockGoto ==
    /\ Running /\ exc.k = "Goto" /\ Top.f = "block" /\ Top.pc = "wait"
    /\ \E label \in GotoGet :
        LET M == stabilize_blocks(Mem, Top.b)
            at == {j \in (Top.i + 1)..Len(Stats) :
                        Stats[j].k = "label" /\ LabelText(Stats[j]) = <<label>>}
            found == IF at = {} THEN Len(Stats) + 1
                     ELSE CHOOSE j \in at : \A i \in at : j <= i
        IN  Set(WithMem(
                IF is_associated_with_label(_listener, Top.b, label)
                THEN [Cur EXCEPT !.exc = NoExc,
                                 !.stack = SetTop([Top EXCEPT !.i = found + 1,
                                                              !.pc = "run"])]
                ELSE [Cur EXCEPT !.stack = Front(stack)], M))

\* the statements are over and the block has a return statement
visitRetstat ==
    /\ Running /\ Quiet /\ Top.f = "block" /\ Top.pc = "run"
    /\ Top.i > Len(Stats)
    /\ tree[Top.b].ret.has
    /\ LET exps == tree[Top.b].ret.exps
       IN  IF exps = <<>>
           THEN Set([Cur EXCEPT !.exc = [Throw("Return") EXCEPT !.vals = <<RV(VNil)>>],
                                !.stack = Call("ret", <<>>)])
           ELSE Set([Cur EXCEPT !.stack = Call("ret", <<ExplistFrame(exps)>>)])

\* throw Exceptions::Return(std::move(retval))
visitRetstatThrow ==
    /\ Running /\ Quiet /\ Top.f = "block" /\ Top.pc = "ret"
    /\ Set([Cur EXCEPT !.exc = [Throw("Return") EXCEPT !.vals = retval]])

\* the end of visitBlock, for a block without a return statement
visitBlockEnd ==
    /\ Running /\ Quiet /\ Top.f = "block" /\ Top.pc = "run"
    /\ Top.i > Len(Stats)
    /\ ~tree[Top.b].ret.has
    /\ LET M == IF Top.cff THEN Mem ELSE erase_block(Mem, Top.b)
       IN  IF M.blocks = <<>> THEN Set(Crashed)
           ELSE IF Last(M.blocks) # Top.b
           THEN Set(WithMem([Cur EXCEPT !.exc = Throw("Unbalanced blocks"),
                                        !.stack = Front(stack)], M))
           ELSE Set(WithMem([Cur EXCEPT !.stack = Front(stack), !.retval = <<>>],
                            [M EXCEPT !.blocks = IF Top.cff THEN @ ELSE Front(@)]))

\* the activations an exception of kind k stops at
Catches(fr, k) ==
    CASE fr.f = "chunk" -> k = "Return"
      [] fr.f = "block" -> fr.pc = "wait" /\ k = "Goto"
      [] fr.f \in {"while", "fornum", "forin"} -> k = "Break"
      [] fr.f = "call" -> k = "Return"
      [] fr.f = "expect" -> k = "BadType"
      [] OTHER -> FALSE

\* the exception leaves an activation that does not catch it; out of the
\* last one, it leaves the interpreter
Unwind ==
    /\ Running /\ ~Quiet /\ ~Catches(Top, exc.k)
    /\ Set([Cur EXCEPT !.stack = Front(stack),
                       !.status = IF Len(stack) = 1 THEN "uncaught" ELSE @])

(***************************************************************************)
(* Use of a pointer to a deleted cell, or of a null pointer, is undefined: *)
(* the step either faults or goes on with what the memory still holds.     *)
(***************************************************************************)
Undefined(bad) == IF bad THEN {"fault", "stale"} ELSE {"defined"}

\* the Values of a vector of Vars, each by Var::get
RECURSIVE GetAll(_, _)
GetAll(h, vs) ==
    IF vs = <<>> THEN <<>>
    ELSE <<IF BadRead(h, vs[1]) /\ vs[1].addr = 0 THEN VNil ELSE get(h, vs[1])>>
            \o GetAll(h, Tail(vs))

AnyBadRead(h, vs) == \E i \in 1..Len(vs) : BadRead(h, vs[i])

\* Var::is<Types::Elipsis>()
IsElipsis(h, var) ==
    IF var.k = "lvalue" /\ var.addr = 0 THEN FALSE ELSE get(h, var).t = "elipsis"

(***************************************************************************)
(* while                                                                   *)
(***************************************************************************)
process_while ==
    /\ AtStat({"while"})
    /\ Set([Cur EXCEPT !.stack =
                Call("wait", <<[f |-> "while", s |-> Stat, current |-> current_block]>>)])

\* while (visit(exp).as<Types::Var>().as_bool_weak()) visit(block);
process_while_test ==
    /\ Running /\ Quiet /\ Top.f = "while"
    /\ LET c == visitExp(Top.s.cond)
       IN  IF ~c.ok THEN Set([Cur EXCEPT !.exc = Throw(c.kind)])
           ELSE IF as_bool_weak(c.val)
           THEN Set([Cur EXCEPT !.stack = Append(stack, BlockFrame(Top.s.body))])
           ELSE Set([Cur EXCEPT !.stack = Front(stack)])

process_while_catch ==
    /\ Running /\ exc.k = "Break" /\ Top.f = "while"
    /\ Set(WithMem([Cur EXCEPT !.exc = NoExc, !.stack = Front(stack)],
                   stabilize_blocks(Mem, Top.current)))

(***************************************************************************)
(* if                                                                      *)
(***************************************************************************)
RECURSIVE IfBranch(_, _)
\* the block process_if visits: 0 for none, -1 when a condition throws
IfBranch(s, i) ==
    IF i > Len(s.conds)
    THEN IF Len(s.conds) < Len(s.blocks) THEN s.blocks[Len(s.blocks)] ELSE 0
    ELSE LET c == visitExp(s.conds[i])
         IN  IF ~c.ok THEN -1
             ELSE IF as_bool_weak(c.val) THEN s.blocks[i]
             ELSE IfBranch(s, i + 1)

RECURSIVE IfFailure(_, _)
\* what the first condition that cannot be evaluated throws
IfFailure(s, i) ==
    IF ~visitExp(s.conds[i]).ok THEN visitExp(s.conds[i]).kind ELSE IfFailure(s, i + 1)

process_if ==
    /\ AtStat({"if"})
    /\ LET b == IfBranch(Stat, 1)
       IN  IF b = -1
           THEN Set([Cur EXCEPT !.exc = Throw(IfFailure(Stat, 1)),
                                !.stack = Call("wait", <<>>)])
           ELSE IF b = 0
           THEN Set([Cur EXCEPT !.stack = SetTop([Top EXCEPT !.i = @ + 1])])
           ELSE Set([Cur EXCEPT !.stack = Call("wait", <<BlockFrame(b)>>)])

(***************************************************************************)
(* numeric for                                                             *)
(***************************************************************************)
\* a promotion that leaves an int as it is
ToDouble_kept(v) == v

\* (double)value->as<int>()
ToDouble(v) == IF v.t = "int" THEN VDouble(v.v) ELSE v

\* process_for_loop after its three expressions: the cell of the loop
\* variable, the promotion, the push of the body on _blocks
for_loop_enter(s, counter, limit, increment, value) ==
    IF ~counter.ok \/ ~IsNumber(counter.val) \/ ~limit.ok \/ ~IsNumber(limit.val)
    THEN Set([Cur EXCEPT !.exc = Throw(IF ~counter.ok THEN counter.kind
                                       ELSE IF ~IsNumber(counter.val) THEN "BadType"
                                       ELSE IF ~limit.ok THEN limit.kind
                                       ELSE "BadType"),
                         !.stack = Call("wait", <<>>)])
    ELSE IF ~increment.ok \/ ~IsNumber(increment.val)
    THEN Set([Cur EXCEPT
                !.heap = New(heap, counter.val),
                !.lv[Len(_local_values)][s.body] = StorePut(@, s.name, value),
                !.exc = Throw(IF ~increment.ok THEN increment.kind ELSE "BadType"),
                !.stack = Call("wait", <<>>)])
    ELSE Set([Cur EXCEPT
                !.heap = New(heap, IF increment.val.t = "double"
                                   THEN ToDouble(counter.val) ELSE counter.val),
                !.lv[Len(_local_values)][s.body] = StorePut(@, s.name, value),
                !.blocks = Append(@, s.body),
                !.stack = Call("wait",
                    <<[f |-> "fornum", s |-> s, current |-> current_block,
                       value |-> value,
                       counter |-> IF increment.val.t = "double"
                                   THEN ToDouble(counter.val) ELSE counter.val,
                       limit |-> limit.val, increment |-> increment.val,
                       pc |-> "test"]>>)])

\* process_for_loop up to its loop
process_for_loop ==
    /\ AtStat({"fornum"})
    /\ for_loop_enter(Stat, visitExp(Stat.exps[1]), visitExp(Stat.exps[2]),
                      IF Len(Stat.exps) = 3 THEN visitExp(Stat.exps[3]) ELSE Ok(VInt(1)),
                      Len(heap) + 1)

\* the condition of the for: value <= limit, whatever the sign of the step
process_for_loop_test ==
    /\ Running /\ Quiet /\ Top.f = "fornum" /\ Top.pc = "test"
    /\ \E u \in Undefined(Dangling(heap, Top.value)) :
        IF u = "fault" THEN Set(Crashed)
        ELSE IF heap[Top.value].val.v <= Top.limit.v
        THEN Set([Cur EXCEPT !.cff = TRUE,
                             !.stack = Call("body", <<BlockFrame(Top.s.body)>>)])
        ELSE Set(WithMem([Cur EXCEPT !.stack = Front(stack)],
                         erase_block([Mem EXCEPT !.blocks = Front(@)], Top.s.body)))

\* after the body: drop every local of the body but the loop variable,
\* then value = counter + increment and counter = counter + increment
process_for_loop_next ==
    /\ Running /\ Quiet /\ Top.f = "fornum" /\ Top.pc = "body"
    /\ \E u \in Undefined(Dangling(heap, Top.value)) :
        LET store == Last(_local_values)[Top.s.body]
            others == [n \in DOMAIN store \ {Top.s.name} |-> store[n]]
            kept == [n \in DOMAIN store \cap {Top.s.name} |-> store[n]]
            next == [Top.counter EXCEPT !.v = @ + Top.increment.v]
        IN  IF u = "fault" \/ \E n \in DOMAIN others : Dangling(heap, others[n])
            THEN Set(Crashed)
            ELSE Set([Cur EXCEPT
                        !.lv[Len(_local_values)][Top.s.body] = kept,
                        !.heap = [clear_block(heap, others) EXCEPT ![Top.value].val = next],
                        !.stack = SetTop([Top EXCEPT !.counter = next, !.pc = "test"])])

process_for_loop_catch ==
    /\ Running /\ exc.k = "Break" /\ Top.f = "fornum"
    /\ Set(WithMem([Cur EXCEPT !.exc = NoExc, !.stack = Front(stack)],
                   stabilize_blocks(Mem, Top.current)))

(***************************************************************************)
(* Function calls                                                          *)
(***************************************************************************)
RECURSIVE BindFormals(_, _, _, _)
\* the first loop of call_function: a new cell per actual that has a formal
BindFormals(B, formals, values, i) ==
    IF i > Len(formals) \/ i > Len(values) THEN B
    ELSE BindFormals([store |-> StorePut(B.store, formals[i], Len(B.heap) + 1),
                      heap |-> New(B.heap, values[i])], formals, values, i + 1)

RECURSIVE NilFormals(_, _, _)
\* not enough actuals: a new nil cell for each formal from i on
NilFormals(B, formals, i) ==
    IF i > Len(formals) THEN B
    ELSE NilFormals([store |-> StorePut(B.store, formals[i], Len(B.heap) + 1),
                     heap |-> New(B.heap, VNil)], formals, i + 1)

\* what formal_parameters().back() can give: the vector may be empty
FormalsBack(formals, values) ==
    IF formals = <<>> /\ values # <<>> THEN {"fault", "...", Garbage}
    ELSE IF formals = <<>> THEN {Garbage}
    ELSE {Last(formals)}

\* call_function up to visit(ctx), from the state S; back is what
\* formal_parameters().back() gave; caller is the activation left waiting
call_function(S, function, values, back) ==
    LET fn == S.funcs[function]
        formals == fn.params
        ctx == fn.body
        n == IF Len(values) < Len(formals) THEN Len(values) ELSE Len(formals)
        B0 == BindFormals([store |-> EmptyStore, heap |-> S.heap], formals, values, 1)
        B1 == IF n < Len(formals) THEN NilFormals(B0, formals, n + 1)
              ELSE IF n < Len(values) /\ back = "..."
              THEN [store |-> StorePut(B0.store, "...", Len(B0.heap) + 1),
                    heap |-> New(B0.heap, VElipsis(SubSeq(values, n + 1, Len(values))))]
              ELSE B0
    IN  IF back = "fault" THEN Crashed
        ELSE [S EXCEPT
                !.blocks = Append(@, ctx),
                !.lv = Append(@, [EmptyFrame EXCEPT ![ctx] = B1.store]),
                !.functions = Append(@, function),
                !.heap = B1.heap,
                !.cffc = TRUE,
                !.stack = @ \o <<[f |-> "call", fn |-> function,
                                  current_block |-> IF S.blocks = <<>> THEN 0
                                                    ELSE Last(S.blocks),
                                  values |-> values, before |-> S.blocks],
                                 BlockFrame(ctx)>>]

\* visit(ctx) returned
call_function_end ==
    /\ Running /\ Quiet /\ Top.f = "call"
    /\ Set([Cur EXCEPT !.functions = Front(@), !.lv = Front(@),
                       !.retval = <<>>, !.stack = Front(stack)])

\* catch (Exceptions::Return& e)
call_function_catch ==
    /\ Running /\ exc.k = "Return" /\ Top.f = "call"
    /\ LET M == stabilize_blocks(Mem, Top.current_block)
       IN  Set(WithMem([Cur EXCEPT !.functions = Front(@), !.retval = exc.vals,
                                   !.exc = NoExc, !.stack = Front(stack)],
                       [M EXCEPT !.lv = Front(@)]))

FuncallFrame(e) == [f |-> "funcall", e |-> e, src |-> VNil, pc |-> "source"]

\* the try block of expect_failure(expression), with the three stacks as
\* they are when it is entered
ExpectFrame ==
    [f |-> "expect", expression |-> Stat.call.args[1], blocks |-> _blocks,
     frames |-> Len(_local_values), functions |-> _functions]

\* a call statement: funcall_test_infrastructure takes print and
\* expect_failure for itself
visitFunctioncall ==
    /\ AtStat({"call"})
    /\ Stat.call.fn # "ensure_value_type"
    /\ IF Stat.call.fn = "print"
       THEN Set([Cur EXCEPT !.stack =
                    Call("wait", <<[f |-> "print"], ExplistFrame(<<Stat.call.args[1]>>)>>)])
       ELSE IF Stat.call.fn = "expect_failure"
       THEN Set([Cur EXCEPT !.stack =
                    Call("wait", <<ExpectFrame, ExplistFrame(<<Stat.call.args[1]>>)>>)])
       ELSE Set([Cur EXCEPT !.stack = Call("wait", <<FuncallFrame(Stat.call)>>)])

\* Value::as_int_weak of a Value that is a double: the int it equals, or
\* the type error for a double with a fractional part
as_int_weak(v) == IF IsHalf(v) THEN BadType ELSE Ok(VInt(v.v))

\* Value::operator==: the bool it returns, or the error it throws
ValueEq(x, y) ==
    IF x.t = y.t
    THEN (IF x.t = "double" THEN Ok(VBool(Twice(x) = Twice(y)))
          ELSE IF x.t \in {"nil", "elipsis"} THEN Ok(VBool(TRUE))
          ELSE Ok(VBool(x.v = y.v)))
    ELSE IF x.t = "double" /\ y.t = "int" THEN Ok(VBool(Twice(x) = Twice(y)))
    ELSE IF x.t = "int" /\ y.t = "double"
    THEN (IF as_int_weak(y).ok THEN Ok(VBool(x.v = as_int_weak(y).val.v)) ELSE BadType)
    ELSE IF x.t = "bool" THEN Ok(VBool((x.v = 1) = as_bool_weak(y)))
    ELSE IF y.t = "bool" THEN Ok(VBool(as_bool_weak(x) = (y.v = 1)))
    ELSE Ok(VBool(FALSE))

\* Value::type_as_string
type_as_string(v) == IF v.t = "elipsis" THEN "unknown type" ELSE v.t

\* ensure_value_type(expr, expected_value, expected_type): the exception
\* it ends with, "none" when both checks pass
ensure_value_type(left, middle, type) ==
    IF middle.t \notin {"table", "function"} /\ ~ValueEq(left, middle).ok THEN "BadType"
    ELSE IF middle.t \notin {"table", "function"} /\ ValueEq(left, middle).val.v = 0
    THEN "ValueEqualityExpected"
    ELSE IF type \notin {"int", "double", "string", "table", "bool", "nil"}
    THEN "Invalid type"
    ELSE IF type_as_string(left) # type THEN "TypeEqualityExpected"
    ELSE "none"

\* funcall_test_infrastructure on a statement ensure_value_type(e1, e2, e3)
funcall_ensure_value_type ==
    /\ AtStat({"call"})
    /\ Stat.call.fn = "ensure_value_type"
    /\ LET left == visitExp(Stat.call.args[1])
           middle == visitExp(Stat.call.args[2])
           right == visitExp(Stat.call.args[3])
       IN  IF ~left.ok \/ ~middle.ok \/ ~right.ok
           THEN Set([Cur EXCEPT !.exc = Throw(IF ~left.ok THEN left.kind
                                              ELSE IF ~middle.ok THEN middle.kind
                                              ELSE right.kind),
                                !.stack = Call("wait", <<>>)])
           ELSE IF ensure_value_type(left.val, middle.val, right.val.v) = "none"
           THEN Set([Cur EXCEPT !.stack = SetTop([Top EXCEPT !.i = @ + 1])])
           ELSE Set([Cur EXCEPT
                        !.exc = Throw(ensure_value_type(left.val, middle.val, right.val.v)),
                        !.stack = Call("wait", <<>>)])

\* std::cout << left.value_as_string() << std::endl
funcall_test_infrastructure ==
    /\ Running /\ Quiet /\ Top.f = "print"
    /\ \E u \in Undefined(AnyBadRead(heap, retval)) :
        IF u = "fault" THEN Set(Crashed)
        ELSE Set([Cur EXCEPT !.out = Append(@, value_as_string(GetAll(heap, retval)[1])),
                             !.stack = Front(stack)])

\* expect_failure: the expression was evaluated,
\* throw std::runtime_error("Failure expected in expression " + expression)
funcall_expect_failure ==
    /\ Running /\ Quiet /\ Top.f = "expect"
    /\ Set([Cur EXCEPT !.exc = Throw("FailureExpected")])

\* the line "Expression <text> rightfully triggered a type error"
Rightfully(expression) ==
    <<"Expression", expression, "rightfully triggered", "a type error">>

\* expect_failure: catch (Exceptions::BadTypeException&) writes its line and
\* the statement is over
funcall_expect_failure_catch ==
    /\ Running /\ exc.k = "BadType" /\ Top.f = "expect"
    /\ Set([Cur EXCEPT !.out = Append(@, Rightfully(Top.expression)),
                       !.exc = NoExc, !.stack = Front(stack)])

\* visitVar_ on the name called, then the visit of the arguments
visitVar_ ==
    /\ Running /\ Quiet /\ Top.f = "funcall" /\ Top.pc = "source"
    /\ LET p == lookup_name(_global_values, Top.e.fn)
           src == IF p.ptr # 0 THEN heap[p.ptr].val ELSE VNil
       IN  Set([Cur EXCEPT !.stack =
                    SetTop([Top EXCEPT !.src = src, !.pc = "args"])
                        \o <<ExplistFrame(Top.e.args)>>])

\* visitArgs on the Vars of the explist: the values of a last Var that is
\* an Elipsis or a list are appended to the vector
visitArgs(h, values) ==
    IF values = <<>> THEN values
    ELSE LET last == Last(values)
             remains == IF IsElipsis(h, last) THEN get(h, last).v
                        ELSE IF last.k = "list" THEN last.list ELSE <<>>
         IN  values \o [i \in 1..Len(remains) |-> RV(remains[i])]

\* process_names_and_args: the call itself, once the arguments are known
process_names_and_args ==
    /\ Running /\ Quiet /\ Top.f = "funcall" /\ Top.pc = "args"
    /\ LET args == visitArgs(heap, retval)
       IN  \E u \in Undefined(AnyBadRead(heap, retval)) :
           IF u = "fault" THEN Set(Crashed)
           ELSE IF Top.src.t # "function"
           THEN Set([Cur EXCEPT !.exc = Throw("BadCall")])
           ELSE \E back \in FormalsBack(funcs[Top.src.v].params, args) :
                Set(call_function([Cur EXCEPT !.stack = SetTop([Top EXCEPT !.pc = "call"])],
                                  Top.src.v, GetAll(heap, args), back))

\* the results of call_function become the Var of the call
process_names_and_args_result ==
    /\ Running /\ Quiet /\ Top.f = "funcall" /\ Top.pc = "call"
    /\ \E u \in Undefined(AnyBadRead(heap, retval)) :
        IF u = "fault" THEN Set(Crashed)
        ELSE Set([Cur EXCEPT !.stack = Front(stack),
                             !.retval = IF retval = <<>> THEN RV(VNil)
                                        ELSE ListV(GetAll(heap, retval))])

(***************************************************************************)
(* Expression lists                                                        *)
(***************************************************************************)
AtExp(kinds) ==
    /\ Running /\ Quiet /\ Top.f = "explist" /\ Top.pc = "run"
    /\ Top.i <= Len(Top.es)
    /\ Top.es[Top.i].k \in kinds

Pushed(var) == SetTop([Top EXCEPT !.vals = Append(@, var), !.i = @ + 1, !.pc = "run"])

\* an expression without call, function or "..."
visitExplist ==
    /\ Running /\ Quiet /\ Top.f = "explist" /\ Top.pc = "run"
    /\ Top.i <= Len(Top.es)
    /\ IsPure(Top.es[Top.i])
    /\ LET r == visitExp(Top.es[Top.i])
       IN  IF r.ok THEN Set([Cur EXCEPT !.stack = Pushed(RV(r.val))])
           ELSE Set([Cur EXCEPT !.exc = Throw(r.kind)])

\* "...": _local_values.back()[current_block()]["..."], made if absent
visitExpVararg ==
    /\ AtExp({"vararg"})
    /\ LET store == Last(_local_values)[current_block]
       IN  IF "..." \in DOMAIN store
           THEN Set([Cur EXCEPT !.stack = Pushed(LV(store["..."]))])
           ELSE Set([Cur EXCEPT !.stack = Pushed(LV(0)),
                                !.lv[Len(_local_values)][current_block] =
                                    StorePut(store, "...", 0)])

visitFunctiondef ==
    /\ AtExp({"functiondef"})
    /\ LET e == Top.es[Top.i]
           C == close_function(heap, e.params, e.body)
       IN  IF C.twice THEN Set([Cur EXCEPT !.exc = Throw("Closing function twice")])
           ELSE Set([Cur EXCEPT
                        !.funcs = Append(@, [params |-> e.params, body |-> e.body,
                                             closure |-> C.closure]),
                        !.heap = C.heap,
                        !.stack = Pushed(RV(VFunction(Len(funcs) + 1)))])

\* visitField: the key, if the field has one, and the value
visitField(field) ==
    [keyed |-> field.key # "none",
     key |-> CASE field.key = "name" -> Ok(VString(field.name))
               [] field.key = "exp" -> visitExp(field.kexp)
               [] OTHER -> Ok(VNil),
     val |-> visitExp(field.val)]

\* the index the next positional field gets
NextIndex_always(index, keyed) == index + 1
NextIndex(index, keyed) == IF keyed THEN index ELSE index + 1

RECURSIVE visitFieldlist(_, _, _, _)
\* the (key, value) pairs of the fields from i on, index being the key of
\* the next field without a key; a field with the key nil is skipped, and a
\* nil without a key only takes its index
visitFieldlist(fields, i, index, values) ==
    IF i > Len(fields) THEN values
    ELSE LET value == visitField(fields[i])
             keep == IF value.keyed THEN value.key.val.t # "nil"
                     ELSE value.val.val.t # "nil"
             pair == [key |-> IF value.keyed THEN value.key.val ELSE VInt(index),
                      val |-> value.val.val]
         IN  visitFieldlist(fields, i + 1, NextIndex(index, value.keyed),
                            IF keep THEN Append(values, pair) ELSE values)

RECURSIVE FieldSetter(_, _, _)
\* Table::Table: each pair in turn by FieldSetter, which does nothing for a
\* key that is an Elipsis; B.fields is the table, B.heap the cells
FieldSetter(B, values, i) ==
    IF i > Len(values) THEN B
    ELSE IF values[i].key.t \in {"nil", "elipsis"} THEN FieldSetter(B, values, i + 1)
    ELSE LET key == KeyOf(values[i].key)
         IN  IF key \in DOMAIN B.fields
             THEN FieldSetter([B EXCEPT !.heap[B.fields[key]].val = values[i].val],
                              values, i + 1)
             ELSE FieldSetter([fields |-> [k \in DOMAIN B.fields \cup {key} |->
                                             IF k = key THEN Len(B.heap) + 1
                                             ELSE B.fields[k]],
                               heap |-> Append(B.heap, [val |-> values[i].val, refs |-> 1])],
                              values, i + 1)

\* some key or value of the fields cannot be evaluated
FieldError(fields) ==
    \E i \in 1..Len(fields) :
        ~visitField(fields[i]).key.ok \/ ~visitField(fields[i]).val.ok

RECURSIVE FieldFailure(_, _)
\* what the first of them throws
FieldFailure(fields, i) ==
    IF ~visitField(fields[i]).key.ok THEN visitField(fields[i]).key.kind
    ELSE IF ~visitField(fields[i]).val.ok THEN visitField(fields[i]).val.kind
    ELSE FieldFailure(fields, i + 1)

\* Value::make_table: alloc<Table> adds a reference for the new table and
\* make_table adds one more; the Value v they are added for is a temporary
make_table(gc) == Append(gc, 2 - 1)

\* a table constructor among the expressions
visitTableconstructor ==
    /\ AtExp({"table"})
    /\ LET fields == Top.es[Top.i].fields
           B == FieldSetter([fields |-> EmptyStore, heap |-> heap],
                            visitFieldlist(fields, 1, 1, <<>>), 1)
       IN  IF FieldError(fields)
           THEN Set([Cur EXCEPT !.exc = Throw(FieldFailure(fields, 1))])
           ELSE Set([Cur EXCEPT !.tables = Append(@, B.fields),
                                !.heap = B.heap,
                                !.gc = make_table(@),
                                !.stack = Pushed(RV(VTable(Len(tables) + 1)))])

\* a binary operator with a call in an operand: visit(exp[0]) and
\* visit(exp[1]), in this order, whatever the operator
visitExpOperands ==
    /\ AtExp({"binop"})
    /\ ~IsPure(Top.es[Top.i])
    /\ Set([Cur EXCEPT !.stack =
                Call("wait", <<[f |-> "binop", e |-> Top.es[Top.i]],
                               ExplistFrame(<<Top.es[Top.i].l, Top.es[Top.i].r>>)>>)])

\* the operator applied to the two Vars: and / or return one of the Vars,
\* the other operators a new Value
visitExpOperator ==
    /\ Running /\ Quiet /\ Top.f = "binop"
    /\ \E u \in Undefined(AnyBadRead(heap, retval)) :
        LET op == Top.e.op
            vals == GetAll(heap, retval)
            r == IF op \in {"+", "-"} THEN Arith(op, vals[1], vals[2])
                 ELSE Comparison(op, vals[1], vals[2])
        IN  IF u = "fault" THEN Set(Crashed)
            ELSE IF op = "and"
            THEN Set([Cur EXCEPT !.stack = Front(stack),
                                 !.retval = IF as_bool_weak(vals[1]) THEN retval[2]
                                            ELSE retval[1]])
            ELSE IF op = "or"
            THEN Set([Cur EXCEPT !.stack = Front(stack),
                                 !.retval = IF as_bool_weak(vals[1]) THEN retval[1]
                                            ELSE retval[2]])
            ELSE IF r.ok THEN Set([Cur EXCEPT !.stack = Front(stack), !.retval = RV(r.val)])
            ELSE Set([Cur EXCEPT !.exc = Throw(r.kind)])

\* a call among the expressions
visitPrefixexp ==
    /\ AtExp({"call"})
    /\ Set([Cur EXCEPT !.stack = Call("wait", <<FuncallFrame(Top.es[Top.i])>>)])

visitPrefixexp_result ==
    /\ Running /\ Quiet /\ Top.f = "explist" /\ Top.pc = "wait"
    /\ Set([Cur EXCEPT !.stack = Pushed(retval)])

visitExplist_end ==
    /\ Running /\ Quiet /\ Top.f = "explist" /\ Top.pc = "run"
    /\ Top.i > Len(Top.es)
    /\ Set([Cur EXCEPT !.stack = Front(stack), !.retval = Top.vals])

(***************************************************************************)
(* function, local, assignment                                             *)
(***************************************************************************)
\* Table::add_field(name, value): _string_fields[name] = value
add_field(B, tab, name, value) ==
    IF <<"string", name>> \in DOMAIN B.tables[tab]
    THEN [B EXCEPT !.heap[B.tables[tab][<<"string", name>>]].val = value]
    ELSE [heap |-> New(B.heap, value),
          tables |-> [B.tables EXCEPT ![tab] =
                        [k \in DOMAIN @ \cup {<<"string", name>>} |->
                            IF k = <<"string", name>> THEN Len(B.heap) + 1 ELSE @[k]]]]

\* visitFuncname.  For a name without dots the function always goes to
\* _global_values, in a new cell.  For NAME.field last_part ends as NAME:
\* the function goes to the field NAME of the table when the table has no
\* such field yet, and to the global NAME when it has; an unbound NAME is a
\* null pointer that is dereferenced for the text of the error
process_function ==
    /\ AtStat({"function"})
    /\ \E u \in Undefined(Stat.field # "" /\ lookup_name(_global_values, Stat.name).ptr = 0) :
        LET p == lookup_name(_global_values, Stat.name)
            source == IF p.ptr # 0 THEN heap[p.ptr].val ELSE VNil
            C == close_function(heap, Stat.params, Stat.body)
            f == VFunction(Len(funcs) + 1)
            made == Append(funcs, [params |-> Stat.params, body |-> Stat.body,
                                   closure |-> C.closure])
        IN  IF u = "fault" THEN Set(Crashed)
            ELSE IF Stat.field # "" /\ source.t # "table"
            THEN Set([Cur EXCEPT !.exc = Throw("BadDotAccess"),
                                 !.stack = Call("wait", <<>>)])
            ELSE IF C.twice
            THEN Set([Cur EXCEPT !.exc = Throw("Closing function twice"),
                                 !.stack = Call("wait", <<>>)])
            ELSE IF Stat.field # "" /\
                    FieldGetter(heap, tables, source.v, <<"string", Stat.field>>,
                                set_nil(FALSE)).addr = _nil
            THEN LET B == add_field([heap |-> C.heap, tables |-> tables],
                                    source.v, Stat.name, f)
                 IN  Set([Cur EXCEPT !.funcs = made, !.heap = B.heap,
                                     !.tables = B.tables,
                                     !.stack = SetTop([Top EXCEPT !.i = @ + 1])])
            ELSE Set([Cur EXCEPT
                        !.funcs = made,
                        !.heap = New(C.heap, f),
                        !.globals = StorePut(@, Stat.name, Len(heap) + 1),
                        !.stack = SetTop([Top EXCEPT !.i = @ + 1])])

\* process_local_function: the function is closed first and only then
\* bound to its name in the store of the current block; visit(parlist)
\* is the visit of a null pointer when the function has no parameters
process_local_function ==
    /\ AtStat({"localfunction"})
    /\ \E u \in Undefined(Stat.params = <<>>) :
        LET C == close_function(heap, Stat.params, Stat.body)
        IN  IF u = "fault" THEN Set(Crashed)
            ELSE IF C.twice
            THEN Set([Cur EXCEPT !.exc = Throw("Closing function twice"),
                                 !.stack = Call("wait", <<>>)])
            ELSE Set([Cur EXCEPT
                        !.funcs = Append(@, [params |-> Stat.params, body |-> Stat.body,
                                             closure |-> C.closure]),
                        !.heap = New(C.heap, VFunction(Len(funcs) + 1)),
                        !.lv[Len(_local_values)][current_block] =
                            StorePut(@, Stat.name, Len(heap) + 1),
                        !.stack = SetTop([Top EXCEPT !.i = @ + 1])])

\* the cell of a declared name takes a value; the cell is made if absent
SetLocal(B, name, val) ==
    IF name \in DOMAIN B.store THEN [B EXCEPT !.heap[B.store[name]].val = val]
    ELSE [store |-> StorePut(B.store, name, Len(B.heap) + 1), heap |-> New(B.heap, val)]

RECURSIVE SetLocals(_, _, _, _, _)
\* names[i], names[i+1], ... take vals[j], vals[j+1], ... while both last
SetLocals(B, names, vals, i, j) ==
    IF i > Len(names) \/ j > Len(vals) THEN B
    ELSE SetLocals(SetLocal(B, names[i], vals[j]), names, vals, i + 1, j + 1)

\* the adjustment to a last Var that holds several values: where the
\* values left over come from, the first name (i) and the first value (j)
\* they go to
Remains(h, values) ==
    IF values = <<>> THEN [vals |-> <<>>, i |-> 1, j |-> 1]
    ELSE IF IsElipsis(h, Last(values))
    THEN [vals |-> get(h, Last(values)).v, i |-> Len(values), j |-> 1]
    ELSE IF Last(values).k = "list"
    THEN [vals |-> Last(values).list, i |-> Len(values) + 1, j |-> 2]
    ELSE [vals |-> <<>>, i |-> Len(values) + 1, j |-> 1]

process_local_variables ==
    /\ AtStat({"local"})
    /\ IF Stat.hasexps
       THEN Set([Cur EXCEPT !.stack =
                    Call("wait", <<[f |-> "local", s |-> Stat], ExplistFrame(Stat.exps)>>)])
       ELSE Set([Cur EXCEPT
                    !.retval = [i \in 1..Len(Stat.names) |-> RV(VNil)],
                    !.stack = Call("wait", <<[f |-> "local", s |-> Stat]>>)])

\* process_local_variables once the values are known
process_local_variables_bind ==
    /\ Running /\ Quiet /\ Top.f = "local"
    /\ \E u \in Undefined(AnyBadRead(heap, retval)) :
        LET names == Top.s.names
            vals == GetAll(heap, retval)
            store == Last(_local_values)[current_block]
            B0 == SetLocals([store |-> store, heap |-> heap], names, vals, 1, 1)
            r == Remains(heap, retval)
            B1 == SetLocals(B0, names, r.vals, r.i, r.j)
            done == r.i + (IF Len(r.vals) < r.j THEN 0 ELSE Len(r.vals) - r.j + 1)
            B2 == IF Len(retval) < Len(names)
                  THEN NilFormals(B1, names, IF done > Len(names) THEN Len(names) + 1 ELSE done)
                  ELSE B0
        IN  IF u = "fault" THEN Set(Crashed)
            ELSE Set([Cur EXCEPT !.lv[Len(_local_values)][current_block] = B2.store,
                                 !.heap = B2.heap,
                                 !.stack = Front(stack)])

RECURSIVE visitVarlist(_, _, _)
\* visitVar_ on each var of a varlist: for a name the cell found by
\* lookup_name, or a new global; for NAME[exp] and NAME.field the slot of
\* the table, or BadDotAccess
visitVarlist(V, targets, i) ==
    IF i > Len(targets) \/ V.error THEN V
    ELSE LET p == lookup_name(V.globals, targets[i].name)
             V1 == IF p.ptr # 0 THEN V
                   ELSE [V EXCEPT !.globals = StorePut(@, targets[i].name, Len(V.heap) + 1),
                                  !.heap = New(@, VNil)]
             cell == IF p.ptr # 0 THEN p.ptr ELSE Len(V.heap) + 1
         IN  IF targets[i].k = "name"
             THEN visitVarlist([V1 EXCEPT !.vars = Append(@, cell)], targets, i + 1)
             ELSE LET base == V1.heap[cell].val
                      key == visitExp(targets[i].key)
                  IN  IF base.t # "table" \/ ~key.ok THEN [V1 EXCEPT !.error = TRUE]
                      ELSE IF key.val.t \in {"nil", "elipsis"}
                      THEN [V1 EXCEPT !.error = TRUE]
                      ELSE LET slot == FieldGetter(V1.heap, V1.tables, base.v,
                                                   KeyOf(key.val), TRUE)
                           IN  visitVarlist([V1 EXCEPT !.heap = slot.heap,
                                                       !.tables = slot.tables,
                                                       !.vars = Append(@, slot.addr)],
                                            targets, i + 1)

process_stat_var_list ==
    /\ AtStat({"assign"})
    /\ LET V == visitVarlist([vars |-> <<>>, globals |-> _global_values, heap |-> heap,
                              tables |-> tables, error |-> FALSE], Stat.vars, 1)
       IN  IF V.error
           THEN Set([Cur EXCEPT !.globals = V.globals, !.heap = V.heap,
                                !.tables = V.tables,
                                !.exc = Throw("BadDotAccess"),
                                !.stack = Call("wait", <<>>)])
           ELSE Set([Cur EXCEPT !.globals = V.globals, !.heap = V.heap,
                                !.tables = V.tables,
                                !.stack = Call("wait", <<[f |-> "assign", vars |-> V.vars],
                                                         ExplistFrame(Stat.exps)>>)])

RECURSIVE Store(_, _, _, _, _)
\* the cells[i], cells[i+1], ... take vals[j], vals[j+1], ...
Store(h, cells, vals, i, j) ==
    IF i > Len(cells) \/ j > Len(vals) THEN h
    ELSE Store([h EXCEPT ![cells[i]].val = vals[j]], cells, vals, i + 1, j + 1)

RECURSIVE Released(_, _, _, _, _, _, _)
\* sGC->remove_reference of what cells[i], cells[i+1], ... hold before they
\* take vals[j], vals[j+1], ..., for the positions after `from`; for a cell
\* that takes the table it holds the remove_reference and the add_reference
\* cancel
Released(gc, h, cells, vals, i, j, from) ==
    IF i > Len(cells) \/ j > Len(vals) THEN gc
    ELSE LET old == h[cells[i]].val
             same == vals[j].t = "table" /\ vals[j].v = old.v
         IN  Released(IF i > from /\ old.t = "table" /\ h[cells[i]].refs > 0 /\ ~same
                      THEN [gc EXCEPT ![old.v] = @ - 1] ELSE gc,
                      [h EXCEPT ![cells[i]].val = vals[j]], cells, vals, i + 1, j + 1, from)

\* process_stat_var_list once the values are known
process_stat_var_list_store ==
    /\ Running /\ Quiet /\ Top.f = "assign"
    /\ \E u \in Undefined(AnyBadRead(heap, retval)) :
        LET cells == Top.vars
            vals == GetAll(heap, retval)
            h0 == Store(heap, cells, vals, 1, 1)
            r == Remains(heap, retval)
            h1 == Store(h0, cells, r.vals, r.i, r.j)
            done == r.i + (IF Len(r.vals) < r.j THEN 0 ELSE Len(r.vals) - r.j + 1)
            nils == [i \in 1..Len(cells) |-> VNil]
            h2 == IF Len(retval) < Len(cells) THEN Store(h1, cells, nils, done, done)
                  ELSE h0
        IN  IF u = "fault" THEN Set(Crashed)
            ELSE Set([Cur EXCEPT !.heap = h2, !.stack = Front(stack),
                                 !.gc = Released(Released(@, heap, cells, vals, 1, 1, 0),
                                                 h0, cells, r.vals, r.i, r.j,
                                                 Len(retval))])

(***************************************************************************)
(* generic for                                                             *)
(***************************************************************************)
process_for_in ==
    /\ AtStat({"forin"})
    /\ Set([Cur EXCEPT !.stack =
                Call("wait", <<[f |-> "forin", s |-> Stat, current |-> 0, fn |-> 0,
                                state |-> VNil, iteration_value |-> VNil,
                                pc |-> "exps"],
                               ExplistFrame(Stat.exps)>>)])

\* loop_values: every expression but the last by its first value, the last
\* one only when it is a list or an Elipsis, by all of its values
loop_values(h, exprs) ==
    GetAll(h, Front(exprs)) \o
        (IF Last(exprs).k = "list" THEN Last(exprs).list
         ELSE IF IsElipsis(h, Last(exprs)) THEN get(h, Last(exprs)).v
         ELSE <<>>)

\* process_for_in from the values of the explist to the try
process_for_in_values ==
    /\ Running /\ Quiet /\ Top.f = "forin" /\ Top.pc = "exps"
    /\ \E u \in Undefined(AnyBadRead(heap, retval)) :
        LET lvs == loop_values(heap, retval)
        IN  IF u = "fault" THEN Set(Crashed)
            ELSE IF lvs = <<>> THEN Set([Cur EXCEPT !.exc = Throw("BadForIn")])
            ELSE IF lvs[1].t # "function"
            THEN Set([Cur EXCEPT !.exc = Throw("ForInBadType")])
            ELSE Set([Cur EXCEPT
                        !.blocks = Append(@, Top.s.body),
                        !.stack = SetTop([Top EXCEPT
                            !.current = current_block,
                            !.fn = lvs[1].v,
                            !.state = IF Len(lvs) >= 2 THEN lvs[2] ELSE VNil,
                            !.iteration_value = IF Len(lvs) >= 3 THEN lvs[3] ELSE VNil,
                            !.pc = "call"])])

\* one turn of while (true): after a body, clear_block and the clear of
\* the store of the body; then the call of the iterator
process_for_in_call ==
    /\ Running /\ Quiet /\ Top.f = "forin" /\ Top.pc \in {"call", "body"}
    /\ LET store == Last(_local_values)[Top.s.body]
           cleared == IF Top.pc = "call" THEN Cur
                      ELSE [Cur EXCEPT !.heap = clear_block(heap, store),
                                       !.lv[Len(_local_values)][Top.s.body] = EmptyStore]
           values == <<Top.state, Top.iteration_value>>
       IN  IF Top.pc = "body" /\ \E n \in DOMAIN store : Dangling(heap, store[n])
           THEN Set(Crashed)
           ELSE \E back \in FormalsBack(funcs[Top.fn].params, values) :
                Set(call_function(
                        [cleared EXCEPT !.stack = SetTop([Top EXCEPT !.pc = "results"])],
                        Top.fn, values, back))

RECURSIVE ForInRemains(_, _, _, _, _, _)
\* the names from i on take the values left over from j on: the cell bound
\* from the results is written, the others are new
ForInRemains(B, names, remains, i, j, nresults) ==
    IF i > Len(names) \/ j > Len(remains) THEN B
    ELSE ForInRemains(
            IF i <= nresults THEN [B EXCEPT !.heap[B.store[names[i]]].val = remains[j]]
            ELSE [store |-> StorePut(B.store, names[i], Len(B.heap) + 1),
                  heap |-> New(B.heap, remains[j])],
            names, remains, i + 1, j + 1, nresults)

\* the first name the last loop of the adjustment gives a nil cell to; no
\* branch sets it when the last result is a single value
ForInRest(h, names, results) ==
    LET r == Remains(h, results)
        n == IF Len(r.vals) < r.j THEN 0 ELSE Len(r.vals) - r.j + 1
    IN  IF IsElipsis(h, Last(results)) \/ Last(results).k = "list"
        THEN {IF r.i + n > Len(names) THEN Len(names) + 1 ELSE r.i + n}
        ELSE 1..(Len(names) + 1)

\* the results of the iterator: the end of the loop, or the loop
\* variables and the body
process_for_in_results ==
    /\ Running /\ Quiet /\ Top.f = "forin" /\ Top.pc = "results"
    /\ \E u \in Undefined(AnyBadRead(heap, retval)) :
        IF u = "fault" THEN Set(Crashed)
        ELSE IF retval = <<>> THEN Set([Cur EXCEPT !.exc = Throw("Break")])
        ELSE IF GetAll(heap, retval)[1].t = "nil" THEN Set([Cur EXCEPT !.exc = Throw("Break")])
        ELSE \E rest \in (IF Len(retval) < Len(Top.s.names)
                          THEN ForInRest(heap, Top.s.names, retval) ELSE {0}) :
            LET names == Top.s.names
                vals == GetAll(heap, retval)
                r == Remains(heap, retval)
                B0 == BindFormals([store |-> Last(_local_values)[Top.s.body],
                                   heap |-> heap], names, vals, 1)
                B1 == ForInRemains(B0, names, r.vals, r.i, r.j, Len(retval))
                B2 == IF Len(retval) < Len(names) THEN NilFormals(B1, names, rest) ELSE B0
            IN  Set([Cur EXCEPT
                        !.lv[Len(_local_values)][Top.s.body] = B2.store,
                        !.heap = B2.heap,
                        !.cff = TRUE,
                        !.stack = SetTop([Top EXCEPT !.iteration_value = vals[1],
                                                     !.pc = "body"])
                                    \o <<BlockFrame(Top.s.body)>>])

process_for_in_catch ==
    /\ Running /\ exc.k = "Break" /\ Top.f = "forin"
    /\ Set(WithMem([Cur EXCEPT !.exc = NoExc, !.stack = Front(stack)],
                   stabilize_blocks(Mem, Top.current)))

Next ==
    \/ visitChunk \/ visitChunkReturn
    \/ visitBlock \/ visitBlockNext \/ visitBlockGoto \/ visitBlockEnd
    \/ visitRetstat \/ visitRetstatThrow
    \/ visitLabel \/ process_break \/ process_goto \/ visitStatDo
    \/ process_while \/ process_while_test \/ process_while_catch
    \/ process_if
    \/ process_for_loop \/ process_for_loop_test \/ process_for_loop_next
    \/ process_for_loop_catch
    \/ process_for_in \/ process_for_in_values \/ process_for_in_call
    \/ process_for_in_results \/ process_for_in_catch
    \/ process_function \/ process_local_function
    \/ process_local_variables \/ process_local_variables_bind
    \/ process_stat_var_list \/ process_stat_var_list_store
    \/ visitFunctioncall \/ funcall_test_infrastructure \/ funcall_ensure_value_type
    \/ funcall_expect_failure \/ funcall_expect_failure_catch
    \/ visitVar_ \/ process_names_and_args \/ process_names_and_args_result
    \/ call_function_end \/ call_function_catch
    \/ visitExplist \/ visitExpVararg \/ visitFunctiondef \/ visitTableconstructor
    \/ visitExpOperands \/ visitExpOperator
    \/ visitPrefixexp \/ visitPrefixexp_result \/ visitExplist_end
    \/ Unwind

Spec == Init /\ [][Next]_vars

(***************************************************************************)
(* The curried bridge.  A CurriedFunction<F(A1, ..., An)> is the chain of  *)
(* its n levels and of the CurriedFunction<F()> that ends it: level k      *)
(* holds _bound and _function, the callable with the first k - 1           *)
(* arguments bound.  A std::function is its bound arguments, and whether   *)
(* it has a target at all.                                                 *)
(***************************************************************************)
MaxBridges == 2
MaxHostCalls == 5

\* the native callables the host registers, by their parameter types
Signatures == {<<>>, <<"int">>, <<"int", "int">>, <<"int", "bool">>}

\* the Values the host binds
HostValues == {VInt(1), VDouble(2), VNil}

\* value_to_int and value_to_bool, the conversions the host registers
value_to_int(v) ==
    IF v.t = "int" THEN Ok(v)
    ELSE IF v.t = "double" THEN as_int_weak(v)
    ELSE BadType

value_to_bool(v) == Ok(VBool(as_bool_weak(v)))

\* Converter::perform_conversion<T>: the conversion registered for T
perform_conversion(T, v) == IF T = "int" THEN value_to_int(v) ELSE value_to_bool(v)

\* a std::function without a target
NoTarget == [set |-> FALSE, args |-> <<>>]

\* std::bind_front that puts the argument before the bound ones
bind_front_reversed(f, a) == [f EXCEPT !.args = <<a>> \o @]

\* std::bind_front(f, a)
bind_front(f, a) == [f EXCEPT !.args = Append(@, a)]

\* new CurriedFunction<F>(_converter): no level is bound, no level has a
\* function yet
CurriedFunction(F) == [k \in 1..(Len(F) + 1) |-> [_bound |-> FALSE, _function |-> NoTarget]]

\* init_function of the level k of a chain
init_function(chain, k, function) == [chain EXCEPT ![k]._function = function]

\* CurriedFunctionBuilder::build
build(B) == init_function(CurriedFunction(B._function), 1, [set |-> TRUE, args |-> <<>>])

\* CurriedFunction::bind_next from level k on: the chain it leaves and
\* what it throws
RECURSIVE bind_next(_, _, _, _)
bind_next(F, chain, k, value) ==
    IF k > Len(F) THEN [chain |-> chain, thrown |-> "BindOverflow"]
    ELSE IF chain[k]._bound THEN bind_next(F, chain, k + 1, value)
    ELSE LET result == perform_conversion(F[k], value)
         IN  IF ~result.ok THEN [chain |-> chain, thrown |-> "BadType"]
             ELSE [chain |-> [init_function(chain, k + 1,
                                            bind_front(chain[k]._function, result.val))
                                EXCEPT ![k]._bound = TRUE],
                   thrown |-> "none"]

\* CurriedFunction::call from level k on: the arguments the native callable
\* is invoked with, if it is, and what is thrown
RECURSIVE call(_, _, _)
call(F, chain, k) ==
    IF k > Len(F)
    THEN (IF chain[k]._function.set
          THEN [invokes |-> <<chain[k]._function.args>>, thrown |-> "none"]
          ELSE [invokes |-> <<>>, thrown |-> "bad_function_call"])
    ELSE IF ~chain[k]._bound THEN [invokes |-> <<>>, thrown |-> "UnboundedCall"]
    ELSE call(F, chain, k + 1)

HostCall(op, inst, value, thrown) ==
    [op |-> op, inst |-> inst, value |-> value, thrown |-> thrown]

Interpreter ==
    <<prog, tree, _listener, status, stack, retval, exc, _blocks, _local_values,
      _global_values, _functions, _coming_from_for, _coming_from_funcall, heap,
      funcs, tables, out, _references>>

\* FunctionAbstractionBuilderAbstraction::build
Build ==
    /\ Len(bridges) < MaxBridges /\ Len(host) < MaxHostCalls
    /\ bridges' = Append(bridges, build(builder))
    /\ host' = Append(host, HostCall("build", Len(bridges) + 1, VNil, "none"))
    /\ UNCHANGED <<builder, invoked, Interpreter>>

\* FunctionAbstraction::bind_next
BindNext ==
    /\ Len(host) < MaxHostCalls
    /\ \E inst \in 1..Len(bridges), value \in HostValues :
        LET r == bind_next(builder._function, bridges[inst], 1, value)
        IN  /\ bridges' = [bridges EXCEPT ![inst] = r.chain]
            /\ host' = Append(host, HostCall("bind_next", inst, value, r.thrown))
    /\ UNCHANGED <<builder, invoked, Interpreter>>

\* FunctionAbstraction::call
CallBridge ==
    /\ Len(host) < MaxHostCalls
    /\ \E inst \in 1..Len(bridges) :
        LET r == call(builder._function, bridges[inst], 1)
        IN  /\ invoked' = invoked \o r.invokes
            /\ host' = Append(host, HostCall("call", inst, VNil, r.thrown))
    /\ UNCHANGED <<builder, bridges, Interpreter>>

\* the host has registered a native callable; no program is being run
BridgeInit ==
    /\ prog = 1
    /\ tree = Programs[prog]
    /\ _listener = Analysis[prog]
    /\ status = "idle"
    /\ stack = <<>>
    /\ retval = <<>>
    /\ exc = NoExc
    /\ _blocks = <<>>
    /\ _local_values = <<>>
    /\ _global_values = EmptyStore
    /\ _functions = <<>>
    /\ _coming_from_for = FALSE
    /\ _coming_from_funcall = FALSE
    /\ heap = <<[val |-> VNil, refs |-> 1]>>
    /\ funcs = <<>>
    /\ tables = <<>>
    /\ out = <<>>
    /\ _references = <<>>
    /\ builder \in {[_function |-> F] : F \in Signatures}
    /\ bridges = <<>>
    /\ invoked = <<>>
    /\ host = <<>>

BridgeNext == Build \/ BindNext \/ CallBridge

BridgeSpec == BridgeInit /\ [][BridgeNext]_vars

(***************************************************************************)
(* The storage manager by itself: GC::_references is the map from heap     *)
(* objects to counts, and host is the log of the calls made on it.  An     *)
(* object is passed to add_reference only while it is allocated.           *)
(***************************************************************************)
MaxObjects == 2
MaxGCCalls == 6
Objects == 1..MaxObjects

\* std::map::operator[]: the entry of l, value-initialised when missing
Entry(refs, l) ==
    IF l \in DOMAIN refs THEN refs
    ELSE [o \in DOMAIN refs \cup {l} |-> IF o = l THEN 0 ELSE refs[o]]

\* std::map::erase
Erase(refs, l) == [o \in DOMAIN refs \ {l} |-> refs[o]]

\* GC::add_reference: _references[l]++
GC_add_reference(refs, l) == [Entry(refs, l) EXCEPT ![l] = @ + 1]

\* GC::remove_reference that leaves the entry in the map
GC_remove_reference_kept(refs, l) ==
    IF l \notin DOMAIN refs THEN [refs |-> refs, deleted |-> {}, thrown |-> "none"]
    ELSE IF refs[l] = 0 THEN [refs |-> refs, deleted |-> {}, thrown |-> "runtime_error"]
    ELSE IF refs[l] - 1 = 0
    THEN [refs |-> [refs EXCEPT ![l] = @ - 1], deleted |-> {l}, thrown |-> "none"]
    ELSE [refs |-> [refs EXCEPT ![l] = @ - 1], deleted |-> {}, thrown |-> "none"]

\* GC::remove_reference: the map, the objects deleted and the exception
GC_remove_reference(refs, l) ==
    IF l \notin DOMAIN refs THEN [refs |-> refs, deleted |-> {}, thrown |-> "none"]
    ELSE IF refs[l] = 0 THEN [refs |-> refs, deleted |-> {}, thrown |-> "runtime_error"]
    ELSE IF refs[l] - 1 = 0
    THEN [refs |-> Erase(refs, l), deleted |-> {l}, thrown |-> "none"]
    ELSE [refs |-> [refs EXCEPT ![l] = @ - 1], deleted |-> {}, thrown |-> "none"]

\* a call on the storage manager: found tells whether l had an entry
GCCall(op, l, found, deleted, thrown) ==
    [op |-> op, l |-> l, found |-> found, deleted |-> deleted, thrown |-> thrown]

\* the objects deleted so far
Freed == UNION {host[i].deleted : i \in 1..Len(host)}

NotGC ==
    <<prog, tree, _listener, status, stack, retval, exc, _blocks, _local_values,
      _global_values, _functions, _coming_from_for, _coming_from_funcall, heap,
      funcs, tables, out, builder, bridges, invoked>>

\* sGC->add_reference(l)
AddReference ==
    /\ Len(host) < MaxGCCalls
    /\ \E l \in Objects \ Freed :
        /\ _references' = GC_add_reference(_references, l)
        /\ host' = Append(host, GCCall("add_reference", l, l \in DOMAIN _references,
                                       {}, "none"))
    /\ UNCHANGED NotGC

\* sGC->remove_reference(l)
RemoveReference ==
    /\ Len(host) < MaxGCCalls
    /\ \E l \in Objects :
        LET r == GC_remove_reference(_references, l)
        IN  /\ _references' = r.refs
            /\ host' = Append(host, GCCall("remove_reference", l,
                                           l \in DOMAIN _references, r.deleted, r.thrown))
    /\ UNCHANGED NotGC

\* no object has been registered; no program is being run
GCInit ==
    /\ prog = 1
    /\ tree = Programs[prog]
    /\ _listener = Analysis[prog]
    /\ status = "idle"
    /\ stack = <<>>
    /\ retval = <<>>
    /\ exc = NoExc
    /\ _blocks = <<>>
    /\ _local_values = <<>>
    /\ _global_values = EmptyStore
    /\ _functions = <<>>
    /\ _coming_from_for = FALSE
    /\ _coming_from_funcall = FALSE
    /\ heap = <<[val |-> VNil, refs |-> 1]>>
    /\ funcs = <<>>
    /\ tables = <<>>
    /\ out = <<>>
    /\ _references = [o \in {} |-> 0]
    /\ builder = [_function |-> <<>>]
    /\ bridges = <<>>
    /\ invoked = <<>>
    /\ host = <<>>

GCNext == AddReference \/ RemoveReference

GCSpec == GCInit /\ [][GCNext]_vars

(***************************************************************************)
(* Block bookkeeping and control-flow signals                              *)
(***************************************************************************)
\* a loop catches the Break that leaves it (a generic for ends by the
\* Break it throws itself when its iterator returned nil)
LoopLeft == Running /\ exc.k = "Break" /\ Top.f \in {"while", "fornum", "forin"}

\* a block catches, and does not rethrow, a Goto raised in a nested block
GotoLands ==
    /\ Running /\ exc.k = "Goto" /\ Top.f = "block" /\ Top.pc = "wait"
    /\ _blocks # <<>> /\ Last(_blocks) # Top.b
    /\ exc'.k = "none"

\* the block a break or a goto comes back to
LandingBlock == IF Top.f = "block" THEN Top.b ELSE Top.current

\* C1: when a loop is left by break (or a generic for ends), and when a
\* goto raised in a nested block lands in the block of its label, every
\* local the enclosing/landing block had declared is still bound, to the
\* same cell holding the same value
C1_LocalsOfLandingBlockKept ==
    [][(LoopLeft \/ GotoLands) =>
            /\ status' = "running"
            /\ Last(_local_values') = [Last(_local_values') EXCEPT
                    ![LandingBlock] = Last(_local_values)[LandingBlock]]
            /\ \A n \in DOMAIN Last(_local_values)[LandingBlock] :
                    heap'[Last(_local_values)[LandingBlock][n]] =
                        heap[Last(_local_values)[LandingBlock][n]]]_vars

\* a call of a language function completes: its body ended, or the Return
\* it threw is caught by call_function
CallCompletes ==
    /\ Running /\ Top.f = "call" /\ exc.k \in {"none", "Return"}
    /\ status' = "running"

\* C2: when a call of a language function completes, by return from any
\* depth or at the end of the body, recursive calls included, _blocks is
\* what it was just before the call; no step ends in "Unbalanced blocks"
C2_BlocksBalancedAfterCall ==
    [][/\ exc'.k # "Unbalanced blocks"
       /\ CallCompletes => _blocks' = Top.before]_vars

\* the statement of block b that is the label ::l::
LabelIndex(b, l) ==
    CHOOSE j \in 1..Len(tree[b].stats) :
        tree[b].stats[j].k = "label" /\ tree[b].stats[j].name = l

\* C3: a block that holds ::L:: and catches goto L goes on with the
\* statement right after ::L::, be the label after or before the goto
C3_GotoContinuesAfterLabel ==
    [][(/\ Running /\ exc.k = "Goto" /\ Top.f = "block" /\ Top.pc = "wait"
        /\ is_associated_with_label(_listener, Top.b, exc.label)
        /\ status' = "running" /\ exc'.k = "none") =>
            Last(stack').i = LabelIndex(Top.b, exc.label) + 1]_vars

\* C4: in an accepted program no Break and no Goto reaches the activation
\* of a call (it would cross the call boundary), and no signal leaves the
\* top-level evaluation
C4_SignalsCaughtInActivation ==
    /\ ~(Running /\ exc.k \in {"Break", "Goto"} /\ Top.f = "call")
    /\ ~(status = "uncaught" /\ exc.k \in {"Break", "Goto", "Return"})

(***************************************************************************)
(* Calls                                                                   *)
(***************************************************************************)
\* call_function has bound the formals and is about to visit the body
JustCalled ==
    /\ Running /\ Quiet /\ Len(stack) >= 2
    /\ Top.f = "block" /\ Top.pc = "enter"
    /\ stack[Len(stack) - 1].f = "call"

\* the formals before a final "..."
Named(params) ==
    IF params # <<>> /\ Last(params) = "..." THEN Front(params) ELSE params

\* C5: formals are bound to the actuals by position, a formal without an
\* actual is nil, a final "..." holds the actuals beyond the named formals
\* in order, and a call with extra actuals proceeds, the formal list empty
\* or not
C5_FormalsBoundByPosition ==
    /\ JustCalled =>
        LET fr == stack[Len(stack) - 1]
            params == funcs[fr.fn].params
            store == Last(_local_values)[Top.b]
        IN  /\ \A i \in 1..Len(Named(params)) :
                    /\ Named(params)[i] \in DOMAIN store
                    /\ heap[store[Named(params)[i]]].val =
                            IF i <= Len(fr.values) THEN fr.values[i] ELSE VNil
            /\ (Named(params) # params /\ Len(fr.values) > Len(Named(params))) =>
                    /\ "..." \in DOMAIN store
                    /\ heap[store["..."]].val =
                            VElipsis(SubSeq(fr.values, Len(params), Len(fr.values)))
    /\ ~(/\ status = "crashed" /\ stack # <<>>
         /\ Top.f = "funcall" /\ Top.pc = "args"
         /\ ~AnyBadRead(heap, retval))

\* the first value of an argument
FirstValue(h, var) ==
    IF var.k = "list" THEN (IF var.list = <<>> THEN VNil ELSE var.list[1])
    ELSE get(h, var)

\* all the values of an argument
AllValues(h, var) ==
    IF var.k = "list" THEN var.list
    ELSE IF IsElipsis(h, var) THEN get(h, var).v
    ELSE <<get(h, var)>>

\* the argument list of a call whose arguments evaluated to vs
ArgumentList(h, vs) ==
    IF vs = <<>> THEN <<>>
    ELSE [i \in 1..(Len(vs) - 1) |-> FirstValue(h, vs[i])] \o AllValues(h, Last(vs))

\* C6: f is invoked with the first value of every argument but the last,
\* then all the values of the last one, each exactly once and in order
C6_LastArgumentExpandedOnce ==
    [][(/\ Running /\ Quiet /\ Top.f = "funcall" /\ Top.pc = "args"
        /\ ~AnyBadRead(heap, retval)
        /\ status' = "running" /\ Len(stack') = Len(stack) + 2) =>
            stack'[Len(stack) + 1].values = ArgumentList(heap, retval)]_vars

(***************************************************************************)
(* Names                                                                   *)
(***************************************************************************)
\* the positions of _blocks whose block, in this activation, declared name
Declaring(name) ==
    {j \in 1..Len(_blocks) : name \in DOMAIN Last(_local_values)[_blocks[j]]}

\* the names the blocks of the activation have declared
Declared ==
    UNION {DOMAIN Last(_local_values)[_blocks[j]] : j \in 1..Len(_blocks)} \ {"..."}

\* C7: between two steps of a statement list, every name that blocks of
\* the activation have declared resolves to the binding of the innermost
\* of them
C7_InnermostBindingRead ==
    (Running /\ Quiet /\ Top.f = "block" /\ Top.pc = "run" /\ Top.b = current_block) =>
        \A name \in Declared :
                LET j == CHOOSE j \in Declaring(name) : \A i \in Declaring(name) : i <= j
                IN  lookup_name(_global_values, name).ptr =
                        Last(_local_values)[_blocks[j]][name]

(***************************************************************************)
(* Numeric for                                                             *)
(***************************************************************************)
RECURSIVE ForValues(_, _, _)
\* a, a + s, a + 2s, ... up to b in the direction of s
ForValues(a, b, s) ==
    IF (s > 0 /\ a > b) \/ (s < 0 /\ a < b) THEN <<>>
    ELSE <<a>> \o ForValues(a + s, b, s)

\* C8: for i = a, b, s do print(i) end prints a, a + s, ... up to b in the
\* direction of s
C8_ForIteratesTowardsLimit ==
    \A r \in 1..Len(ForRanges) : \A d \in 1..Len(ForKinds) :
        (tree = PFor(ForRanges[r], ForKinds[d]) /\ status = "done") =>
            /\ Len(out) = Len(ForValues(ForRanges[r][1], ForRanges[r][2], ForRanges[r][3]))
            /\ \A i \in 1..Len(out) :
                out[i] = <<"number",
                           ForValues(ForRanges[r][1], ForRanges[r][2], ForRanges[r][3])[i]>>

\* an iteration of a numeric for is about to run the body; the loop's
\* activation is the one just below
IterationStarts ==
    /\ Running /\ Quiet /\ Len(stack) >= 2
    /\ Top.f = "block" /\ Top.pc = "enter"
    /\ stack[Len(stack) - 1].f = "fornum"

ForLoop == stack[Len(stack) - 1]

\* the start, limit and step are numerals
Numerals(s) == \A i \in 1..Len(s.exps) : s.exps[i].k \in {"int", "double"}

\* the type C9 gives the loop variable: a double as soon as one of the
\* three is a double
AnyDouble(s) ==
    IF \E i \in 1..Len(s.exps) : s.exps[i].k = "double" THEN "double" ELSE "int"

\* the type the loop variable has: a double when the start or the step is
StartOrStepDouble(s) ==
    IF s.exps[1].k = "double" \/ (Len(s.exps) = 3 /\ s.exps[3].k = "double")
    THEN "double" ELSE "int"

\* C9 as claimed: the loop variable of every iteration is a double if any
\* of start, limit, step is a double, and an int if all three are ints
C9_DoubleIfAnyIsDouble ==
    (IterationStarts /\ Numerals(ForLoop.s)) =>
        /\ ForLoop.counter.t = AnyDouble(ForLoop.s)
        /\ ~Dangling(heap, ForLoop.value) =>
                heap[ForLoop.value].val.t = AnyDouble(ForLoop.s)

\* C9 amended: the value the loop gives its variable for an iteration is
\* a double if the start or the step is a double and an int if both are
\* ints; a double limit alone does not make it a double
C9_DoubleIfStartOrStepIsDouble ==
    (IterationStarts /\ Numerals(ForLoop.s)) =>
        /\ ForLoop.counter.t = StartOrStepDouble(ForLoop.s)
        /\ ~Dangling(heap, ForLoop.value) =>
                heap[ForLoop.value].val.t = StartOrStepDouble(ForLoop.s)

\* C9 witness: a later iteration of a loop whose limit alone is a double
\* starts with an int in the loop variable
C9_Witness ==
    /\ IterationStarts /\ Numerals(ForLoop.s)
    /\ ForLoop.s.exps[2].k = "double" /\ StartOrStepDouble(ForLoop.s) = "int"
    /\ ForLoop.counter.v # ForLoop.s.exps[1].n
    /\ heap[ForLoop.value].val = VInt(ForLoop.counter.v)

\* C10: when an iteration starts, the body block holds the loop variable,
\* bound to the counter, and nothing else
C10_BodyHoldsOnlyLoopVariable ==
    IterationStarts =>
        LET store == Last(_local_values)[Top.b]
        IN  /\ DOMAIN store = {ForLoop.s.name}
            /\ store[ForLoop.s.name] = ForLoop.value
            /\ ~Dangling(heap, ForLoop.value)
            /\ heap[ForLoop.value].val = ForLoop.counter

(***************************************************************************)
(* Assignment                                                              *)
(***************************************************************************)
\* process_stat_var_list has the values of the explist and is about to store
Storing ==
    /\ Running /\ Quiet /\ Top.f = "assign"
    /\ ~AnyBadRead(heap, retval)

\* the value target i of an assignment takes from the values vs of the
\* expressions, all of them read before any store
Assigned(h, vs, i) ==
    IF i <= Len(ArgumentList(h, vs)) THEN ArgumentList(h, vs)[i] ELSE VNil

\* C11: an assignment reads all the values of its expressions before it
\* stores; target i takes value i, nil when there is none, and the values
\* beyond the targets are dropped
C11_ValuesReadBeforeStores ==
    [][(Storing /\ status' = "running") =>
            \A i \in 1..Len(Top.vars) :
                (\A j \in 1..Len(Top.vars) : Top.vars[j] = Top.vars[i] => j = i) =>
                    heap'[Top.vars[i]].val = Assigned(heap, retval, i)]_vars

\* two table fields have exchanged their values
C11_Witness ==
    /\ tables # <<>>
    /\ KeyOf(VInt(1)) \in DOMAIN tables[1] /\ KeyOf(VInt(2)) \in DOMAIN tables[1]
    /\ heap[tables[1][KeyOf(VInt(1))]].val = VInt(20)
    /\ heap[tables[1][KeyOf(VInt(2))]].val = VInt(10)

(***************************************************************************)
(* Operators                                                               *)
(***************************************************************************)
\* activation k evaluates the operands of an `and` whose left operand is
\* falsy, or of an `or` whose left operand is truthy: the right operand is
\* the one to skip
SkipsRight(k) ==
    /\ k < Len(stack)
    /\ stack[k].f = "binop" /\ stack[k].e.op \in {"and", "or"}
    /\ stack[k + 1].f = "explist" /\ stack[k + 1].vals # <<>>
    /\ ~BadRead(heap, stack[k + 1].vals[1])
    /\ as_bool_weak(FirstValue(heap, stack[k + 1].vals[1])) = (stack[k].e.op = "or")

\* C12: the right operand of `and` is not evaluated when the left one is
\* falsy, nor the right operand of `or` when the left one is truthy
C12_SkippedOperandNotEvaluated ==
    Running =>
        \A k \in 1..Len(stack) :
            SkipsRight(k) => Len(stack) = k + 1 /\ Len(stack[k + 1].vals) = 1

\* the body of a function called from the operand to skip is running
C12_Witness ==
    /\ Running
    /\ \E k \in 1..Len(stack) :
        /\ SkipsRight(k) /\ Len(stack) > k + 3
        /\ stack[k + 2].f = "funcall" /\ Last(stack).f = "print"

\* the equality of two Values: numbers by the number they hold, a bool
\* against the truthiness of the other side, a table or a function with
\* itself only, and otherwise the same tag and the same content
ValueEquality(x, y) ==
    IF IsNumber(x) /\ IsNumber(y) THEN Twice(x) = Twice(y)
    ELSE IF x.t = "bool" THEN (x.v = 1) = as_bool_weak(y)
    ELSE IF y.t = "bool" THEN as_bool_weak(x) = (y.v = 1)
    ELSE x.t = y.t /\ (x.t = "nil" \/ x.v = y.v)

\* visitExp is about to evaluate l == r or l ~= r, from operands that
\* evaluate without error
Comparing ==
    /\ AtExp({"binop"})
    /\ IsPure(Top.es[Top.i])
    /\ Top.es[Top.i].op \in {"==", "~="}
    /\ visitExp(Top.es[Top.i].l).ok /\ visitExp(Top.es[Top.i].r).ok

\* C13: l == r raises no error and is the equality of the two values, and
\* l ~= r is its negation
C13_EqualityOfEveryPairOfTags ==
    [][Comparing =>
        /\ exc'.k = "none"
        /\ Last(stack').vals = Append(Top.vals,
                RV(VBool(ValueEquality(visitExp(Top.es[Top.i].l).val,
                                       visitExp(Top.es[Top.i].r).val)
                            = (Top.es[Top.i].op = "=="))))]_vars

\* a comparison of two values that are no numbers has been made
C13_Witness ==
    /\ exc.k = "BadType" /\ Running /\ Top.f = "explist"
    /\ Top.es[Top.i].k = "binop" /\ Top.es[Top.i].op = "=="
    /\ Top.es[Top.i].l.k = "nil" /\ Top.es[Top.i].r.k = "nil"

\* a statement ensure_value_type(l, m, type) is about to run, l and m
\* being values that are no table and no function
Ensuring ==
    /\ AtStat({"call"})
    /\ Stat.call.fn = "ensure_value_type"
    /\ visitExp(Stat.call.args[1]).ok /\ visitExp(Stat.call.args[2]).ok
    /\ visitExp(Stat.call.args[1]).val.t \notin {"table", "function"}
    /\ visitExp(Stat.call.args[2]).val.t \notin {"table", "function"}

\* C14: Value equality raises nothing, gives the same result in both
\* directions, is numeric between an int and a double, and compares a bool
\* with the truthiness of the other side
C14_EqualityTotalAndSymmetric ==
    Ensuring =>
        LET x == visitExp(Stat.call.args[1]).val
            y == visitExp(Stat.call.args[2]).val
        IN  /\ ValueEq(x, y).ok /\ ValueEq(y, x).ok
            /\ ValueEq(x, y).val = ValueEq(y, x).val
            /\ IsNumber(x) /\ IsNumber(y) => (ValueEq(x, y).val.v = 1) = (Twice(x) = Twice(y))
            /\ x.t = "bool" => (ValueEq(x, y).val.v = 1) = ((x.v = 1) = as_bool_weak(y))

\* ensure_value_type(1, 1.5, "int") ended with the type error of the
\* comparison
C14_Witness ==
    /\ Running /\ exc.k = "BadType" /\ Top.f = "block" /\ Top.pc = "wait"
    /\ Stat.k = "call" /\ Stat.call.fn = "ensure_value_type"
    /\ Stat.call.args[1].k = "int" /\ Stat.call.args[2].k = "half"

(***************************************************************************)
(* Closures                                                                *)
(***************************************************************************)
\* the blocks that enclose the function body `body`, outermost first
Enclosing(body) == get_parents_of_function(_listener, body)

\* the local names bound in the current activation by the blocks ctxs
BoundIn(ctxs) ==
    UNION {DOMAIN Last(_local_values)[ctxs[j]] : j \in 1..Len(ctxs)}

\* the binding of name in the innermost of the blocks ctxs that binds it
InnermostBinding(ctxs, name) ==
    LET declaring == SelectSeq(ctxs, LAMBDA c : name \in DOMAIN Last(_local_values)[c])
    IN  Last(_local_values)[Last(declaring)][name]

\* C15: evaluating a function definition raises nothing and produces a
\* function whose closure maps every local name bound in the enclosing
\* blocks of the current activation to its innermost binding
C15_ClosureOfInnermostBindings ==
    [][AtExp({"functiondef"}) =>
        /\ exc'.k = "none"
        /\ Len(funcs') = Len(funcs) + 1
        /\ DOMAIN Last(funcs').closure = BoundIn(Enclosing(Top.es[Top.i].body))
        /\ \A name \in BoundIn(Enclosing(Top.es[Top.i].body)) :
              Last(funcs').closure[name] =
                  InnermostBinding(Enclosing(Top.es[Top.i].body), name)]_vars

\* a function definition has been evaluated while two of its enclosing
\* blocks bound the same name
C15_Witness ==
    /\ exc.k = "Closing function twice"
    /\ Running /\ Top.f = "explist" /\ Top.es[Top.i].k = "functiondef"
    /\ \E j, k \in 1..Len(Enclosing(Top.es[Top.i].body)) :
          /\ j < k
          /\ DOMAIN Last(_local_values)[Enclosing(Top.es[Top.i].body)[j]]
                \cap DOMAIN Last(_local_values)[Enclosing(Top.es[Top.i].body)[k]] # {}

\* the cells the closures of the functions hold
Captured ==
    UNION {Range(funcs[fn].closure) : fn \in 1..Len(funcs)}

LocalFunctionNames(body) ==
    LET places == UNION {{<<b, i>> : i \in 1..Len(tree[b].stats)} : b \in 1..Len(tree)}
        declaring == {p \in places :
                        /\ tree[p[1]].stats[p[2]].k = "localfunction"
                        /\ tree[p[1]].stats[p[2]].body = body}
    IN  {tree[p[1]].stats[p[2]].name : p \in declaring}

\* C17: during an activation of a function declared by `local function f`,
\* the name f evaluates to that same function
C17_LocalFunctionSeesItself ==
    (Running /\ current_function # 0) =>
        \A name \in LocalFunctionNames(funcs[current_function].body) :
            visitExp(EName(name)) = Ok(VFunction(current_function))

\* the body of `local function f` has called f and the call has found no
\* function under that name
C17_Witness ==
    /\ tree = PLocalFunction
    /\ current_function # 0
    /\ exc.k = "BadCall"
    /\ visitExp(EName("f")) = Ok(VNil)

\* the Value under the name of the function statement about to run
DeclaredValue ==
    IF lookup_name(_global_values, Stat.name).ptr # 0
    THEN heap[lookup_name(_global_values, Stat.name).ptr].val ELSE VNil

\* the cell an assignment to the name of the function statement would
\* assign, 0 when the assignment would make a new global
AssignedCell == lookup_name(_global_values, Stat.name).ptr

\* an assignment to the name of the function statement would assign a
\* global
AssignsGlobal == lookup_name(_global_values, Stat.name).scope = "GLOBAL"

\* C18: `function f` gives the new function to the variable an assignment
\* to f would assign; `function t.m`, t holding a table, gives it to the
\* field m of t; nothing else changes
C18_FunctionDeclarationAssigns ==
    [][(AtStat({"function"}) /\ (Stat.field # "" => DeclaredValue.t = "table")) =>
        /\ exc'.k = "none"
        /\ Len(funcs') = Len(funcs) + 1
        /\ _local_values' = _local_values
        /\ \A name \in DOMAIN _global_values :
              (Stat.field = "" /\ AssignsGlobal /\ name = Stat.name)
              \/ (name \in DOMAIN _global_values' /\ _global_values'[name] = _global_values[name])
        /\ IF Stat.field = ""
           THEN /\ tables' = tables
                /\ IF AssignsGlobal
                   THEN /\ DOMAIN _global_values' = DOMAIN _global_values \cup {Stat.name}
                        /\ heap'[_global_values'[Stat.name]].val = VFunction(Len(funcs'))
                   ELSE /\ heap'[AssignedCell].val = VFunction(Len(funcs'))
                        /\ DOMAIN _global_values' = DOMAIN _global_values
                /\ \A a \in 1..Len(heap) : a # AssignedCell => heap'[a].val = heap[a].val
           ELSE /\ DOMAIN _global_values' = DOMAIN _global_values
                /\ DOMAIN tables'[DeclaredValue.v] =
                      DOMAIN tables[DeclaredValue.v] \cup {<<"string", Stat.field>>}
                /\ heap'[tables'[DeclaredValue.v][<<"string", Stat.field>>]].val =
                      VFunction(Len(funcs'))
                /\ \A key \in DOMAIN tables[DeclaredValue.v] \ {<<"string", Stat.field>>} :
                      tables'[DeclaredValue.v][key] = tables[DeclaredValue.v][key]
                /\ \A a \in 1..Len(heap) :
                      (<<"string", Stat.field>> \in DOMAIN tables[DeclaredValue.v]
                          => a # tables[DeclaredValue.v][<<"string", Stat.field>>])
                      => heap'[a].val = heap[a].val]_vars

\* `function f` has run while a local f was visible, and the local still
\* holds what it held
C18_Witness ==
    /\ tree = PFunctionLocal
    /\ Running /\ Top.f = "block" /\ Top.b = 1 /\ Top.i = 3
    /\ Len(funcs) = 1
    /\ "f" \in DOMAIN _global_values
    /\ visitExp(EName("f")) = Ok(VInt(1))

(***************************************************************************)
(* Generic for                                                             *)
(***************************************************************************)
\* the values f, s, var of a generic for whose expressions evaluated to vs
Triple(h, vs) ==
    [i \in 1..3 |-> IF i <= Len(ArgumentList(h, vs)) THEN ArgumentList(h, vs)[i]
                    ELSE VNil]

\* C19: the expressions of a generic for give the function, the state and
\* the control value, whatever their form; a call of the function whose
\* first result is nil, or that has no result, ends the loop, and any
\* other call makes its first result the control value and runs the body
C19_ForInTripleAndLoop ==
    /\ [][(/\ Running /\ Quiet /\ Top.f = "forin" /\ Top.pc = "exps"
           /\ ~AnyBadRead(heap, retval)
           /\ Triple(heap, retval)[1].t = "function") =>
            /\ exc'.k = "none" /\ status' = "running"
            /\ Len(stack') = Len(stack)
            /\ Last(stack').pc = "call"
            /\ Last(stack').fn = Triple(heap, retval)[1].v
            /\ Last(stack').state = Triple(heap, retval)[2]
            /\ Last(stack').iteration_value = Triple(heap, retval)[3]]_vars
    /\ [][(/\ Running /\ Quiet /\ Top.f = "forin" /\ Top.pc = "results"
           /\ ~AnyBadRead(heap, retval)) =>
            IF FirstValue(heap, IF retval = <<>> THEN RV(VNil) ELSE retval[1]).t = "nil"
            THEN exc'.k = "Break"
            ELSE /\ exc'.k = "none"
                 /\ Len(stack') = Len(stack) + 1
                 /\ Last(stack') = BlockFrame(Top.s.body)
                 /\ stack'[Len(stack)].iteration_value = FirstValue(heap, retval[1])]_vars

\* a generic for over the plain values it, 0, 0 is about to call it
C19_Witness ==
    /\ tree = PForInPlain
    /\ Running /\ Quiet /\ Top.f = "forin" /\ Top.pc = "call"
    /\ Top.state = VInt(0) /\ Top.iteration_value = VNil

(***************************************************************************)
(* Table constructors                                                      *)
(***************************************************************************)
\* the key of the i-th field: for a field without a key, the number of
\* fields without a key up to it
KeyOfField(fields, i) ==
    IF fields[i].key = "none"
    THEN VInt(Cardinality({j \in 1..i : fields[j].key = "none"}))
    ELSE visitField(fields[i]).key.val

\* the i-th field is stored: its key is not nil, and its value is not nil
\* if it has no key
Stored(fields, i) ==
    /\ KeyOfField(fields, i).t # "nil"
    /\ fields[i].key = "none" => visitField(fields[i]).val.val.t # "nil"

\* what the table constructed from the fields holds under the key: the
\* value of the last field stored under it
Constructed(fields, key) ==
    LET under == {i \in 1..Len(fields) :
                    Stored(fields, i) /\ KeyOf(KeyOfField(fields, i)) = key}
    IN  IF under = {} THEN VNil
        ELSE visitField(fields[CHOOSE i \in under : \A j \in under : j <= i]).val.val

\* C20: a table constructor numbers the fields without a key 1, 2, 3, ...,
\* skips a nil without a key after counting it, and lets a later field
\* overwrite an earlier one with the same key
C20_ConstructorStoresLeftToRight ==
    [][(AtExp({"table"}) /\ ~FieldError(Top.es[Top.i].fields)) =>
        /\ exc'.k = "none"
        /\ Len(tables') = Len(tables) + 1
        /\ \A key \in DOMAIN Last(tables')
                        \cup {<<"int", n>> : n \in 1..(Len(Top.es[Top.i].fields) + 1)}
                        \cup {<<"string", "x">>} :
              (IF key \in DOMAIN Last(tables') THEN heap'[Last(tables')[key]].val
               ELSE VNil) = Constructed(Top.es[Top.i].fields, key)]_vars

\* t = {10, [2] = 20, 30} has been constructed: t[1] is 10, t[2] is 30 and
\* t[3] is nil
C20_Witness ==
    /\ tree = PTable(<<FPos(EInt(10)), FKey(EInt(2), EInt(20)), FPos(EInt(30))>>)
    /\ Len(tables) = 1
    /\ Subscript(heap, tables, VTable(1), VInt(1)) = Ok(VInt(10))
    /\ Subscript(heap, tables, VTable(1), VInt(2)) = Ok(VInt(30))
    /\ Subscript(heap, tables, VTable(1), VInt(3)) = Ok(VNil)

(***************************************************************************)
(* Tables                                                                  *)
(***************************************************************************)
\* the assignment whose values are about to be stored
AssignStat == tree[stack[Len(stack) - 1].b].stats[stack[Len(stack) - 1].i]

\* the Value under a name
NameValue(name) ==
    IF lookup_name(_global_values, name).ptr # 0
    THEN heap[lookup_name(_global_values, name).ptr].val ELSE VNil

\* the keys the programs read or assign
SomeKeys == {VInt(1), VInt(2), VInt(3), VString("k"), VString("x"), VString("z")}

\* C21: the canonical nil always holds nil, so that every absent key of
\* every table reads nil; an assignment t.k = v or t[k] = v makes t[k]
\* read v; and no step other than an assignment, a function statement or a
\* table constructor gives a table a key
C21_AbsentKeysReadNil ==
    /\ [](/\ heap[_nil].val = VNil
          /\ \A tab \in 1..Len(tables) : \A key \in SomeKeys :
                KeyOf(key) \notin DOMAIN tables[tab] =>
                    Subscript(heap, tables, VTable(tab), key) = Ok(VNil))
    /\ [][(Storing /\ status' = "running" /\ Len(AssignStat.vars) = 1
           /\ Len(AssignStat.exps) = 1 /\ IsPure(AssignStat.exps[1])
           /\ AssignStat.vars[1].k = "index"
           /\ NameValue(AssignStat.vars[1].name).t = "table") =>
            /\ KeyOf(visitExp(AssignStat.vars[1].key).val) \in
                  DOMAIN tables'[NameValue(AssignStat.vars[1].name).v]
            /\ Subscript(heap', tables', NameValue(AssignStat.vars[1].name),
                         visitExp(AssignStat.vars[1].key).val)
                  = visitExp(AssignStat.exps[1])]_vars
    /\ [][(~AtStat({"assign", "function"}) /\ ~AtExp({"table"})) =>
            \A tab \in 1..Len(tables) : DOMAIN tables'[tab] = DOMAIN tables[tab]]_vars

\* after t.k = 5 for a key k that t did not have, the canonical nil holds 5
\* and the absent key z of another table reads 5
C21_Witness ==
    /\ tree = PAbsentKey
    /\ Len(tables) = 2
    /\ heap[_nil].val = VInt(5)
    /\ KeyOf(VString("k")) \notin DOMAIN tables[1]
    /\ Subscript(heap, tables, VTable(2), VString("z")) = Ok(VInt(5))

\* what the table tab holds under the integer n, nil if it has no such key
Held(tab, n) ==
    IF KeyOf(VInt(n)) \in DOMAIN tables[tab]
    THEN heap[tables[tab][KeyOf(VInt(n))]].val ELSE VNil

\* C22: #t is an n > 0 with t[n] not nil and t[n + 1] nil, or 0 with t[1]
\* nil, whatever constructions and assignments have been made
C22_LengthIsABorder ==
    \A tab \in 1..Len(tables) :
        IF border(tables[tab]) > 0
        THEN /\ Held(tab, border(tables[tab])) # VNil
             /\ Held(tab, border(tables[tab]) + 1) = VNil
        ELSE Held(tab, 1) = VNil

\* after t[2] = nil on t = {10, 20}, #t has been printed and is 2
C22_Witness ==
    /\ tree = PBorder
    /\ Len(out) >= 2 /\ out[2] = value_as_string(VInt(2))
    /\ Subscript(heap, tables, VTable(1), VInt(2)) = Ok(VNil)

(***************************************************************************)
(* Static analysis: goto and break.                                        *)
(***************************************************************************)
\* the blocks a statement nests in the same function body
NestedBlocks(s) ==
    CASE s.k \in {"do", "while", "fornum", "forin"} -> {s.body}
      [] s.k = "if" -> {s.blocks[i] : i \in 1..Len(s.blocks)}
      [] OTHER -> {}

\* where block b is nested: the block and the position of the statement
\* the places of the statements of the program
Places ==
    UNION {{[blk |-> b, pos |-> i] : i \in 1..Len(tree[b].stats)} : b \in 1..Len(tree)}

StatAt(place) == tree[place.blk].stats[place.pos]

Holder(b) == {h \in Places : b \in NestedBlocks(StatAt(h))}

\* the goto's own position, then that of each nested block containing it
RECURSIVE Levels(_, _)
Levels(b, i) ==
    {[blk |-> b, pos |-> i]} \cup UNION {Levels(h.blk, h.pos) : h \in Holder(b)}

DeclaresLocal(s) == s.k \in {"local", "localfunction"}

LabelAt(blk, j, label) ==
    tree[blk].stats[j].k = "label" /\ tree[blk].stats[j].name = label

\* ::label:: is visible from the level lv without crossing a local
Reachable(lv, label) ==
    \E j \in 1..Len(tree[lv.blk].stats) :
        /\ LabelAt(lv.blk, j, label)
        /\ \/ j < lv.pos
           \/ /\ j > lv.pos
              /\ \A m \in (lv.pos + 1)..(j - 1) : ~DeclaresLocal(tree[lv.blk].stats[m])

Gotos == {g \in Places : StatAt(g).k = "goto"}

GotoLabel(g) == StatAt(g).name

GotoLegal(g) == \E lv \in Levels(g.blk, g.pos) : Reachable(lv, GotoLabel(g))

LabelEnclosing(g) ==
    \E lv \in Levels(g.blk, g.pos) :
        \E j \in 1..Len(tree[lv.blk].stats) : LabelAt(lv.blk, j, GotoLabel(g))

\* C23: the analyzer accepts the gotos of a program iff each has a ::L:: in
\* its own or an enclosing block of the function, before it or after it with
\* no declaration of a local in between; CrossedLocal is for a label behind
\* a local, InvisibleLabel for a label in no enclosing block
C23_GotoLegality ==
    (Gotos # {} /\ _listener.error \notin {"LabelAlreadyDefined", "LonelyBreak"}) =>
        /\ _listener.error \in {"none", "CrossedLocal", "InvisibleLabel"}
        /\ (_listener.error = "none") <=> (\A g \in Gotos : GotoLegal(g))
        /\ (_listener.error = "CrossedLocal") =>
                (\E g \in Gotos : ~GotoLegal(g) /\ LabelEnclosing(g))
        /\ (_listener.error = "InvisibleLabel") =>
                (\E g \in Gotos : ~GotoLegal(g) /\ ~LabelEnclosing(g))

\* a goto whose label follows a function statement has been analysed
C23_Witness ==
    /\ tree = PGoto("goto", "function", "label")
    /\ _listener.error = "CrossedLocal"

\* the body blocks of the loops of the program
LoopBodies == {StatAt(p).body : p \in {q \in Places : StatAt(q).k \in {"while", "fornum", "forin"}}}

\* block b is, or is nested in, the body of a loop of its function
RECURSIVE InLoop(_)
InLoop(b) == b \in LoopBodies \/ \E h \in Holder(b) : InLoop(h.blk)

Breaks == {p \in Places : StatAt(p).k = "break"}

\* C24: the analyzer raises LonelyBreak exactly when some break is not in
\* the body of a loop of its own function, at whatever block depth
C24_BreakNeedsLoop ==
    Breaks # {} =>
        ((_listener.error = "LonelyBreak") <=> (\E p \in Breaks : ~InLoop(p.blk)))

\* a break in a function body defined inside a loop has been analysed
C24_Witness ==
    /\ tree = PBreak("inner", "ended")
    /\ _listener.error = "none"

(***************************************************************************)
(* The curried bridge                                                      *)
(***************************************************************************)
\* the Values the host has bound to the instance inst, in order
BoundTo(inst, calls) ==
    LET binds == SelectSeq(calls, LAMBDA c : c.op = "bind_next" /\ c.inst = inst
                                              /\ c.thrown = "none")
    IN  [k \in 1..Len(binds) |-> binds[k].value]

\* what the native callable expects for the Values vs
Converted(vs) == [k \in 1..Len(vs) |-> perform_conversion(builder._function[k], vs[k]).val]

TableHolders(tab) == {a \in 1..Len(heap) : Holds(heap[a], tab) > 0}

\* the tables held by the slots of the tables of ts
Inside(ts) ==
    {u \in 1..Len(tables) :
        \E tab \in ts : \E key \in DOMAIN tables[tab] :
            Holds(heap[tables[tab][key]], u) > 0}

RECURSIVE Within(_, _)
\* the tables reached from the slots of tab in at most n steps
Within(ts, n) == IF n = 0 THEN {} ELSE Inside(ts) \cup Within(Inside(ts), n - 1)

Acyclic == \A tab \in 1..Len(tables) : tab \notin Within({tab}, Len(tables))

\* C26: without reference cycles a table is not freed while a live Value
\* holds it, and at the end of a successful run a table that no Value holds
\* has a count of zero and is freed
C26_ObjectsLiveWhileReferenced ==
    Acyclic =>
        \A tab \in 1..Len(tables) :
            /\ TableHolders(tab) # {} => _references[tab] > 0
            /\ (status = "done" /\ TableHolders(tab) = {}) => _references[tab] = 0

\* the run of PBorder has ended: the local that held its table is gone
C26_Witness ==
    /\ tree = PBorder
    /\ status = "done"
    /\ TableHolders(1) = {}
    /\ _references = <<1>>

(***************************************************************************)
(* expect_failure                                                          *)
(***************************************************************************)
\* the errors of the type-error family
TypeErrors == {"BadType", "NilAccess", "BadDotAccess", "BadCall", "ForInBadType", "BadForIn"}

\* the statement expect_failure(e) is over: its try block is left
ExpectOver == Running /\ Top.f = "expect" /\ Len(stack') = Len(stack) - 1

\* C27: expect_failure(e) completes normally exactly when the evaluation of e
\* raises an error of the type-error family (BadType, NilAccess,
\* BadDotAccess, BadCall, ForInBadType, BadForIn), and it raises an error
\* itself when e is evaluated without error.
C27_ExpectFailure ==
    /\ [][(ExpectOver /\ exc.k # "FailureExpected") =>
            ((exc.k \in TypeErrors) <=> (exc'.k = "none"))]_vars
    /\ [][(Running /\ Top.f = "expect" /\ exc.k = "none") => exc'.k # "none"]_vars

\* C27 witness: expect_failure(x.y) with x nil ends with the BadDotAccess of
\* the dot, which left the interpreter
C27_Witness ==
    /\ tree = PExpect(EDot("x", "y"))
    /\ status = "uncaught" /\ exc.k = "BadDotAccess" /\ out = <<>>

\* C30: after expect_failure(e) has caught the type error raised by e, the
\* entered-block stack, the call-frame stack and the active-function stack
\* are what they were before e was evaluated, also when the error was raised
\* inside a function called by e.
C30_ExpectFailureRestores ==
    [][(Running /\ Top.f = "expect" /\ exc.k = "BadType" /\ exc'.k = "none") =>
            /\ _blocks' = Top.blocks
            /\ Len(_local_values') = Top.frames
            /\ _functions' = Top.functions]_vars

\* C30 witness: the error of expect_failure(f()) was raised in the body of f
\* and caught; the print(a) that follows has written the a of f, the three
\* stacks still holding the call of f
C30_Witness ==
    /\ tree = PExpect(ECall("f", <<>>))
    /\ out = <<Rightfully(ECall("f", <<>>)), <<"number", 2>>>>
    /\ _blocks = <<1, 2>> /\ Len(_local_values) = 2 /\ _functions # <<>>

(***************************************************************************)
(* goto across nested blocks                                               *)
(***************************************************************************)
\* execution resumes in the block that holds the label of the Goto it caught
GotoResumes ==
    /\ Running /\ exc.k = "Goto" /\ Top.f = "block" /\ Top.pc = "wait"
    /\ is_associated_with_label(_listener, Top.b, exc.label)
    /\ exc'.k = "none" /\ status' = "running"

\* C28: when goto L is raised k >= 0 blocks below the block B that holds
\* ::L::, then as execution resumes in B the top of _blocks is B, the part of
\* _blocks below B is unchanged and no crossed block has a local binding left
\* in the current frame.
C28_GotoRestoresBlocks ==
    [][GotoResumes =>
        \E n \in 1..Len(_blocks) :
            /\ _blocks[n] = Top.b
            /\ \A j \in (n + 1)..Len(_blocks) : _blocks[j] # Top.b
            /\ _blocks' = SubSeq(_blocks, 1, n)
            /\ _local_values' # <<>>
            /\ \A j \in (n + 1)..Len(_blocks) :
                    Last(_local_values')[_blocks[j]] = EmptyStore]_vars

\* C28 witness: in the body of f the goto L raised two do blocks below has
\* landed: _blocks is back to the main block and the body of f, and the
\* locals a and b of the two do blocks are gone
C28_Witness ==
    /\ tree = PGotoInFunction
    /\ Running /\ Quiet /\ Top.f = "block" /\ Top.b = 2 /\ Top.i > 1
    /\ _blocks = <<1, 2>>
    /\ Last(_local_values)[3] = EmptyStore /\ Last(_local_values)[4] = EmptyStore

(***************************************************************************)
(* The storage manager                                                     *)
(***************************************************************************)
\* the calls of the log that are op on the object o
CallsOn(op, o) == {i \in 1..Len(host) : host[i].op = op /\ host[i].l = o}

\* the add_reference(o) calls, the remove_reference(o) calls made on an entry
\* of o, and the deletions of o
Adds(o) == Cardinality(CallsOn("add_reference", o))
Removes(o) == Cardinality({i \in CallsOn("remove_reference", o) : host[i].found})
Deletes(o) == Cardinality({i \in 1..Len(host) : o \in host[i].deleted})

\* the call just made
Called == host' # host /\ host' = Append(host, host'[Len(host')])

====
